---- MODULE Spec2Model ----
(***************************************************************************)
(* A model of depivot's validation and data-quality subsystem:             *)
(*   - the ValidationEngine of src/src/depivot/data_quality.py and the     *)
(*     ten rules of src/src/depivot/quality_rules.py                       *)
(*   - the reconciliation report of src/src/depivot/core.py                *)
(*     (create_validation_report) with the numeric normalizer              *)
(*     clean_numeric_value.                                                *)
(***************************************************************************)
EXTENDS Integers, Sequences, FiniteSets, TLC

VARIABLES
    \* ---- ValidationEngine (data_quality.py) ----
    enabled,                \* ValidationEngine.enabled
    stop_on_error,          \* ValidationEngine.stop_on_error
    pre_processing_rules,   \* ValidationEngine.pre_processing_rules
    post_processing_rules,  \* ValidationEngine.post_processing_rules
    n_entries,              \* configuration entries read so far by _load_rules
    pc,                     \* where the engine's caller is
    phase,                  \* "pre" | "post": the rule list being loaded or run
    context,                \* the ValidationContext of the current run
    idx,                    \* position of the for loop of _run_rules
    results,                \* the list _run_rules builds and returns
    evaluated,              \* positions of the rules whose validate was called
    raised,                 \* what check_for_errors did: NoError or an exception
    rule_configs,           \* the configuration lists the engine was built from
    \* ---- create_validation_report (core.py) ----
    id_vars,                \* the identifier columns
    sheet,                  \* the sheet of the current iteration over sheets_data
    n_sheets,               \* sheets read so far
    n_rows,                 \* source rows read so far, over all sheets
    row_i,                  \* position of the loop over df_source.iterrows()
    validation_rows,        \* the list of report rows being built
    totals_rule,            \* verdict of check_totals_match on the current sheet
    exact_sheets,           \* per sheet read: was df_processed the exact reshape?
    dropped,                \* per sheet read: the values whose row df_processed lacks
    rpc,                    \* where create_validation_report is
    \* ---- TemplateValidator (template_validators.py) ----
    tv_enabled,             \* TemplateValidator.enabled
    tv_phase,               \* "file" | "sheet" | "frame": the validate_* being called
    tpc,                    \* where that call is
    wb,                     \* the workbook handle of the call: "none" | "open" | "closed"
    subject,                \* what the call looks at: the workbook, the sheet, the frame
    n_checks,               \* configured checks the loop of the call has taken
    tv_log,                 \* what each evaluated check found and did
    tv_raised,              \* the exception the call raised, if any
    \* ---- depivot_file (core.py) ----
    opts,                   \* the options of the call that decide which steps run
    n_file_sheets,          \* len(sheets_to_process)
    sheet_k,                \* position of the loop over sheets_to_process
    fpc,                    \* the step depivot_file is about to take
    trace,                  \* the steps taken so far, in order, and how each ended
    file_raised,            \* the exception depivot_file raised, if any
    validation_df,          \* the reconciliation report, <<>> while there is none
    \* ---- check_value_ranges rules run by an engine on a frame ----
    vr_rules,               \* the engine's pre_processing_rules, all check_value_ranges
    vr_stop_on_error,       \* the engine's stop_on_error
    vr_context,             \* the ValidationContext object the caller holds
    vr_given,               \* the context and the rules as they were before the first run
    vr_idx,                 \* position of the for loop of _run_rules
    vr_results,             \* the list the current run builds
    vr_runs,                \* the lists the completed runs returned
    vr_pc,                  \* "none" | "loading" | "ready" | "running"
    \* ---- clean_numeric_value (core.py) called on a scalar ----
    cn_value,               \* the scalar handed to clean_numeric_value
    cn_out,                 \* how that call ended: its float, or its exception
    cn_str_out,             \* how the call on str() of that float ended
    cn_again,               \* how the call on that float itself ended
    cn_pc,                  \* "none" | "call" | "raised" | "returned" | "restrung" | "done"
    \* ---- one call of a function on given arguments ----
    call_args,              \* the arguments of the call
    call_out,               \* what the call returned, or the exception it raised
    call_pc                 \* "none" | "call" | "returned"

engineVars == <<enabled, stop_on_error, pre_processing_rules, post_processing_rules,
                n_entries, pc, phase, context, idx, results, evaluated, raised>>

reportVars == <<id_vars, sheet, n_sheets, n_rows, row_i, validation_rows, totals_rule,
                exact_sheets, dropped, rpc>>

templateVars == <<tv_enabled, tv_phase, tpc, wb, subject, n_checks, tv_log, tv_raised>>

rangeVars == <<vr_rules, vr_stop_on_error, vr_context, vr_given, vr_idx, vr_results,
               vr_runs, vr_pc>>

cleanVars == <<cn_value, cn_out, cn_str_out, cn_again, cn_pc>>

callVars == <<call_args, call_out, call_pc>>

fileVars == <<opts, n_file_sheets, sheet_k, fpc, trace, file_raised, validation_df>>

\* What the engine, create_validation_report, the template validator and
\* depivot_file leave alone.
nonEngineVars == <<reportVars, templateVars, fileVars, rangeVars, cleanVars, callVars>>

nonReportVars == <<engineVars, rule_configs, templateVars, fileVars, rangeVars, cleanVars, callVars>>

nonTemplateVars == <<engineVars, rule_configs, reportVars, fileVars, rangeVars, cleanVars, callVars>>

nonFileVars == <<engineVars, rule_configs, reportVars, templateVars, rangeVars, cleanVars, callVars>>

nonRangeVars == <<engineVars, rule_configs, reportVars, templateVars, fileVars, cleanVars, callVars>>

nonCleanVars == <<engineVars, rule_configs, reportVars, templateVars, fileVars, rangeVars, callVars>>

nonCallVars == <<engineVars, rule_configs, reportVars, templateVars, fileVars, rangeVars, cleanVars>>

vars == <<engineVars, rule_configs, reportVars, templateVars, fileVars, rangeVars, cleanVars, callVars>>

(***************************************************************************)
(* Bounds of the model.                                                   *)
(***************************************************************************)
MaxRules == 2      \* configuration entries per engine (both phases together)

MaxSheets == 2     \* sheets of a workbook

MaxRows == 2       \* source rows of a workbook, over all its sheets

MaxChecks == 2     \* configured checks of one phase of the template validator

FracDigits == 5    \* decimal places of the fixed-point numbers standing for floats

MaxLen == 3        \* characters of a text handed to clean_numeric_value

MaxSourceRows == 3 \* source rows of a frame of which only the length is read

MaxColumns == 3    \* columns of an observed header row or frame

MaxFloat == 2000   \* the largest integer a float holds (sys.float_info.max, scaled down)

(***************************************************************************)
(* Configuration dicts are functions from the keys they hold to values.   *)
(***************************************************************************)
\* dict.get(key, default)
Get(config, key, default) == IF key \in DOMAIN config THEN config[key] ELSE default

EmptyDict == [k \in {} |-> TRUE]

\* The dicts that omit the key or give it one of the values.
Optional(key, values) == {EmptyDict} \cup { key :> v : v \in values }

(***************************************************************************)
(* quality_rules.py: the registry, rule name -> rule class.                *)
(***************************************************************************)
RULE_REGISTRY ==
    [check_null_values        |-> "CheckNullValues",
     check_duplicates         |-> "CheckDuplicates",
     check_column_types       |-> "CheckColumnTypes",
     check_value_ranges       |-> "CheckValueRanges",
     check_required_columns   |-> "CheckRequiredColumns",
     check_row_count          |-> "CheckRowCount",
     check_numeric_conversion |-> "CheckNumericConversion",
     check_outliers           |-> "CheckOutliers",
     check_data_completeness  |-> "CheckDataCompleteness",
     check_totals_match       |-> "CheckTotalsMatch"]

RuleNames == DOMAIN RULE_REGISTRY

\* The rule names the multi-rule configurations of Spec are drawn from: one
\* pre-processing rule, one post-processing rule that needs both frames and the
\* post-processing rule with a hard-coded severity.
ListRuleNames == {"check_null_values", "check_row_count", "check_numeric_conversion"}

\* Values a configuration gives for "severity" (any string is accepted).
SeverityValues == {"error", "warning", "info", "critical"}

(***************************************************************************)
(* What a rule's check finds in the context's data, relative to the rule's *)
(* own params:                                                             *)
(*   clean          the data satisfies the check                           *)
(*   violation      the check finds what it looks for                      *)
(*   missing_column a column the rule is configured with is not in the     *)
(*                  frame                                                  *)
(*   degenerate     nothing to check: an empty column list / spec /        *)
(*                  dimension list, or no numeric data                     *)
(*   fault          the rule's own code raises on its params (params:      *)
(*                  null, a threshold of the wrong type, ...)              *)
(***************************************************************************)
Facts == {"clean", "violation", "missing_column", "degenerate", "fault"}

NoException == "<none>"

Returned(result) == [raised |-> FALSE, exc |-> NoException, result |-> result]

ValidationResult(rule_name, severity, passed, message) ==
    [rule_name |-> rule_name, severity |-> severity, passed |-> passed,
     message |-> message]

Raises(exc) ==
    [raised |-> TRUE, exc |-> exc,
     result |-> ValidationResult("", "", FALSE, <<>>)]

\* ValidationRule.__init__
ValidationRule(config) ==
    [name     |-> config["rule"],
     class    |-> RULE_REGISTRY[config["rule"]],
     enabled  |-> Get(config, "enabled", TRUE),
     severity |-> Get(config, "severity", "warning")]

Skipped(rule_name) ==
    Returned(ValidationResult(rule_name, "warning", TRUE, <<"Skipped (missing context)">>))

\* A slip in a rule: its failing result is given severity error, not the
\* rule's configured severity.
Failed_AsError(rule, fact) ==
    Returned(ValidationResult(rule.name, "error", FALSE, <<"message_template", fact>>))

Failed(rule, fact) ==
    Returned(ValidationResult(rule.name, rule.severity, FALSE, <<"message_template", fact>>))

Passed(rule, text) ==
    Returned(ValidationResult(rule.name, rule.severity, TRUE, <<text>>))

NoneTypeError == "'NoneType' object has no attribute"

\* CheckNullValues.validate
CheckNullValues_validate(rule, ctx, fact) ==
    IF fact = "fault" THEN Raises("params")
    ELSE IF ~ctx.df /\ fact # "degenerate" THEN Raises(NoneTypeError)
    ELSE IF fact = "violation" /\ ctx.df THEN Failed(rule, fact)
    ELSE Passed(rule, "No excessive NULL values detected")

\* CheckDuplicates.validate
CheckDuplicates_validate(rule, ctx, fact) ==
    IF fact = "fault" THEN Raises("params")
    ELSE IF ~ctx.df THEN Raises(NoneTypeError)
    ELSE IF fact = "missing_column" THEN Raises("KeyError")
    ELSE IF fact = "violation" THEN Failed(rule, fact)
    ELSE Passed(rule, "No duplicates detected")

\* CheckColumnTypes.validate
CheckColumnTypes_validate(rule, ctx, fact) ==
    IF fact = "fault" THEN Raises("params")
    ELSE IF fact = "degenerate" THEN Passed(rule, "All column types match expected")
    ELSE IF ~ctx.df THEN Raises(NoneTypeError)
    ELSE IF fact \in {"violation", "missing_column"} THEN Failed(rule, fact)
    ELSE Passed(rule, "All column types match expected")

\* CheckValueRanges.validate
CheckValueRanges_validate(rule, ctx, fact) ==
    IF fact = "fault" THEN Raises("params")
    ELSE IF fact = "degenerate" THEN Passed(rule, "All values within expected ranges")
    ELSE IF ~ctx.df THEN Raises(NoneTypeError)
    ELSE IF fact = "violation" THEN Failed(rule, fact)
    ELSE Passed(rule, "All values within expected ranges")

\* CheckRequiredColumns.validate
CheckRequiredColumns_validate(rule, ctx, fact) ==
    IF fact = "fault" THEN Raises("params")
    ELSE IF fact = "degenerate" THEN Passed(rule, "All required columns present")
    ELSE IF ~ctx.df THEN Raises(NoneTypeError)
    ELSE IF fact \in {"violation", "missing_column"} THEN Failed(rule, fact)
    ELSE Passed(rule, "All required columns present")

\* CheckRowCount.validate
CheckRowCount_validate(rule, ctx, fact) ==
    IF ~ctx.df_source \/ ~ctx.df_processed THEN Skipped("check_row_count")
    ELSE IF fact = "fault" THEN Raises("params")
    ELSE IF fact = "violation" THEN Failed(rule, fact)
    ELSE Passed(rule, "Row count valid")

\* CheckNumericConversion.validate
CheckNumericConversion_validate(rule, ctx, fact) ==
    IF ~ctx.df_processed THEN Skipped("check_numeric_conversion")
    ELSE IF fact = "fault" THEN Raises("params")
    ELSE IF fact = "missing_column"
         THEN Returned(ValidationResult("check_numeric_conversion", "error", FALSE,
                                        <<"Value column not found">>))
    ELSE IF fact = "violation" THEN Failed(rule, fact)
    ELSE Passed(rule, "Numeric conversion successful")

\* CheckOutliers.validate
CheckOutliers_validate(rule, ctx, fact) ==
    IF ~ctx.df_processed THEN Skipped("check_outliers")
    ELSE IF fact = "fault" THEN Raises("params")
    ELSE IF fact = "missing_column"
         THEN Returned(ValidationResult("check_outliers", "warning", TRUE,
                                        <<"Value column not found">>))
    ELSE IF fact = "degenerate"
         THEN Returned(ValidationResult("check_outliers", "warning", TRUE,
                                        <<"No numeric values to check">>))
    ELSE IF fact = "violation" THEN Failed(rule, fact)
    ELSE Passed(rule, "No outliers detected")

\* CheckDataCompleteness.validate
CheckDataCompleteness_validate(rule, ctx, fact) ==
    IF ~ctx.df_processed THEN Skipped("check_data_completeness")
    ELSE IF fact = "fault" THEN Raises("params")
    ELSE IF fact = "degenerate"
         THEN Returned(ValidationResult("check_data_completeness", "warning", TRUE,
                           <<"Skipped (no dimensions or expected_values configured)">>))
    ELSE IF fact = "missing_column"
         THEN Returned(ValidationResult("check_data_completeness", "warning", TRUE,
                                        <<"Skipped (missing columns)">>))
    ELSE IF fact = "violation" THEN Failed(rule, fact)
    ELSE Passed(rule, "All dimension combinations have complete data")

\* CheckTotalsMatch.validate, as the engine sees it (its arithmetic is
\* CheckTotalsMatch_passes below).
CheckTotalsMatch_validate(rule, ctx, fact) ==
    IF ~ctx.df_source \/ ~ctx.df_processed THEN Skipped("check_totals_match")
    ELSE IF fact = "fault" THEN Raises("params")
    ELSE IF fact = "violation" THEN Failed(rule, fact)
    ELSE Passed(rule, "Totals match within tolerance")

\* The frames of the context a rule reads: df for the pre-processing rules,
\* df_source and/or df_processed for the post-processing rules.
FramesRead(name) ==
    CASE name \in {"check_null_values", "check_duplicates", "check_column_types",
                   "check_value_ranges", "check_required_columns"}
            -> {"df"}
      [] name \in {"check_row_count", "check_totals_match"}
            -> {"df_source", "df_processed"}
      [] name \in {"check_numeric_conversion", "check_outliers", "check_data_completeness"}
            -> {"df_processed"}

\* rule.validate(context): dispatch on the rule's class.
Validate(rule, ctx, fact) ==
    CASE rule.class = "CheckNullValues"        -> CheckNullValues_validate(rule, ctx, fact)
      [] rule.class = "CheckDuplicates"        -> CheckDuplicates_validate(rule, ctx, fact)
      [] rule.class = "CheckColumnTypes"       -> CheckColumnTypes_validate(rule, ctx, fact)
      [] rule.class = "CheckValueRanges"       -> CheckValueRanges_validate(rule, ctx, fact)
      [] rule.class = "CheckRequiredColumns"   -> CheckRequiredColumns_validate(rule, ctx, fact)
      [] rule.class = "CheckRowCount"          -> CheckRowCount_validate(rule, ctx, fact)
      [] rule.class = "CheckNumericConversion" -> CheckNumericConversion_validate(rule, ctx, fact)
      [] rule.class = "CheckOutliers"          -> CheckOutliers_validate(rule, ctx, fact)
      [] rule.class = "CheckDataCompleteness"  -> CheckDataCompleteness_validate(rule, ctx, fact)
      [] rule.class = "CheckTotalsMatch"       -> CheckTotalsMatch_validate(rule, ctx, fact)

\* The facts that make a rule of the given name behave differently.
FactsOf(name) ==
    CASE name \in {"check_null_values", "check_value_ranges"}
            -> {"clean", "violation", "degenerate", "fault"}
      [] name = "check_duplicates"
            -> {"clean", "violation", "missing_column", "fault"}
      [] name \in {"check_column_types", "check_required_columns"}
            -> {"clean", "violation", "degenerate", "fault"}
      [] name \in {"check_row_count", "check_totals_match"}
            -> {"clean", "violation", "fault"}
      [] name = "check_numeric_conversion"
            -> {"clean", "violation", "missing_column", "fault"}
      [] name \in {"check_outliers", "check_data_completeness"}
            -> {"clean", "violation", "missing_column", "degenerate", "fault"}

(***************************************************************************)
(* data_quality.py: ValidationEngine.                                      *)
(***************************************************************************)
NoError == [type |-> "<none>", count |-> 0, lines |-> <<>>]

\* One configuration entry of "pre_processing" / "post_processing".
ConfigEntries(names) ==
    { r @@ e @@ s : r \in Optional("rule", names \cup {"no_such_rule"}),
                    e \in Optional("enabled", BOOLEAN),
                    s \in Optional("severity", SeverityValues) }

\* A slip in _load_rules: a disabled rule is kept.
LoadRule_KeepsDisabled(rules, rule_config) ==
    IF "rule" \notin DOMAIN rule_config THEN rules
    ELSE IF rule_config["rule"] \notin DOMAIN RULE_REGISTRY THEN rules
    ELSE Append(rules, ValidationRule(rule_config))

\* ValidationEngine._load_rules: the body of its for loop, for one entry.
LoadRule(rules, rule_config) ==
    IF "rule" \notin DOMAIN rule_config THEN rules
    ELSE IF rule_config["rule"] \notin DOMAIN RULE_REGISTRY THEN rules
    ELSE LET rule == ValidationRule(rule_config)
         IN  IF rule.enabled THEN Append(rules, rule) ELSE rules

\* ValidationEngine.__init__, up to the first _load_rules call.
EngineInit ==
    /\ \E config \in Optional("enabled", BOOLEAN),
          settings \in Optional("stop_on_error", BOOLEAN) :
          /\ enabled = Get(config, "enabled", TRUE)
          /\ stop_on_error = Get(settings, "stop_on_error", TRUE)
    /\ pre_processing_rules = <<>>
    /\ post_processing_rules = <<>>
    /\ n_entries = 0
    /\ pc = "loading"
    /\ phase = "pre"
    /\ context = [df |-> FALSE, df_source |-> FALSE, df_processed |-> FALSE, facts |-> <<>>]
    /\ idx = 1
    /\ results = <<>>
    /\ evaluated = <<>>
    /\ raised = NoError
    /\ rule_configs = [pre |-> <<>>, post |-> <<>>]

\* _load_rules, one iteration of its loop, on the entry rule_config.
LoadEntryOf(rule_config, max) ==
    /\ pc = "loading"
    /\ n_entries < max
    /\ IF phase = "pre"
       THEN /\ pre_processing_rules' = LoadRule(pre_processing_rules, rule_config)
            /\ UNCHANGED post_processing_rules
       ELSE /\ post_processing_rules' = LoadRule(post_processing_rules, rule_config)
            /\ UNCHANGED pre_processing_rules
    /\ n_entries' = n_entries + 1
    /\ UNCHANGED <<enabled, stop_on_error, pc, phase, context, idx, results,
                   evaluated, raised>>
    /\ UNCHANGED nonEngineVars

\* _load_rules reads the next entry of the phase's configuration list.
LoadEntry(names, max) ==
    /\ \E rule_config \in ConfigEntries(names) : LoadEntryOf(rule_config, max)
    /\ UNCHANGED rule_configs

LoadRuleNames == {"check_duplicates", "check_row_count"}

\* The same, the entry read being remembered.
LoadConfigEntry ==
    \E rule_config \in { c \in ConfigEntries(LoadRuleNames) : Get(c, "severity", "error") = "error" } :
       /\ LoadEntryOf(rule_config, MaxRules)
       /\ rule_configs' = [rule_configs EXCEPT ![phase] = Append(@, rule_config)]

\* _load_rules returns: the post-processing list is loaded next, then
\* __init__ returns.
LoadDone ==
    /\ pc = "loading"
    /\ IF phase = "pre"
       THEN phase' = "post" /\ pc' = "loading"
       ELSE phase' = phase /\ pc' = "ready"
    /\ UNCHANGED <<enabled, stop_on_error, pre_processing_rules, post_processing_rules,
                   n_entries, context, idx, results, evaluated, raised>>
    /\ UNCHANGED <<rule_configs, nonEngineVars>>

RulesOf(ph) == IF ph = "pre" THEN pre_processing_rules ELSE post_processing_rules

\* The contexts a caller may pass: any of the three frames may be absent.
\* facts holds what the rules evaluated so far found in the frames.
Contexts ==
    { [df |-> d, df_source |-> s, df_processed |-> p, facts |-> <<>>] :
        d \in BOOLEAN, s \in BOOLEAN, p \in BOOLEAN }

\* The contexts depivot_file passes: pre_context holds df, post_context holds
\* df_source and df_processed.
FileContext(ph) ==
    [df |-> ph = "pre", df_source |-> ph = "post", df_processed |-> ph = "post",
     facts |-> <<>>]

\* A slip in the run operations: the enable flag is not looked at.
ReturnsAtOnce_IgnoresEnabled(en, rules) == rules = <<>>

\* run_pre_processing / run_post_processing return [] when the engine is
\* disabled; _run_rules returns [] when there is no rule to loop over.
ReturnsAtOnce(en, rules) == ~en \/ rules = <<>>

RunPhase(ph, ctx) ==
    /\ pc = "ready"
    /\ phase' = ph
    /\ context' = ctx
    /\ results' = <<>>
    /\ evaluated' = <<>>
    /\ idx' = 1
    /\ raised' = NoError
    /\ pc' = IF ReturnsAtOnce(enabled, RulesOf(ph)) THEN "returned" ELSE "running"
    /\ UNCHANGED <<enabled, stop_on_error, pre_processing_rules, post_processing_rules,
                   n_entries>>
    /\ UNCHANGED <<rule_configs, nonEngineVars>>

\* ValidationEngine.run_pre_processing, up to the first iteration of _run_rules,
\* as depivot_file calls it.
RunPreProcessing == RunPhase("pre", FileContext("pre"))

\* ValidationEngine.run_post_processing, likewise.
RunPostProcessing == RunPhase("post", FileContext("post"))

\* The two run operations called directly, on any context.
RunPreProcessingAny == \E ctx \in Contexts : RunPhase("pre", ctx)

RunPostProcessingAny == \E ctx \in Contexts : RunPhase("post", ctx)

\* A slip in the break condition: the verdict is not looked at.
StopAfter_IgnoresPassed(result, stop) ==
    result.severity = "error" /\ stop

\* _run_rules, lines 243-246: stop after this result?
StopAfter(result, stop) ==
    result.severity = "error" /\ ~result.passed /\ stop

\* A slip in the except branch: the fault is recorded at the rule's own severity.
ExecutionFailure_RuleSeverity(rule, exc) ==
    ValidationResult(rule.class, rule.severity, FALSE, <<"Rule execution failed: ", exc>>)

\* _run_rules, lines 250-257: the result recorded for a rule that raised.
ExecutionFailure(rule, exc) ==
    ValidationResult(rule.class, "error", FALSE, <<"Rule execution failed: ", exc>>)

\* _run_rules: one iteration of its for loop. What the rule finds in the
\* frames is a fact of the context, recorded in it when the rule looks.
RunRule ==
    /\ pc = "running"
    /\ \E fact \in FactsOf(RulesOf(phase)[idx].name) :
         LET rules  == RulesOf(phase)
             rule   == rules[idx]
             out    == Validate(rule, context, fact)
             result == IF out.raised THEN ExecutionFailure(rule, out.exc) ELSE out.result
             stop   == IF out.raised THEN stop_on_error
                       ELSE StopAfter(out.result, stop_on_error)
         IN  /\ results' = Append(results, result)
             /\ evaluated' = Append(evaluated, idx)
             /\ context' = [context EXCEPT !.facts = Append(@, fact)]
             /\ idx' = idx + 1
             /\ pc' = IF stop \/ idx = Len(rules) THEN "returned" ELSE "running"
    /\ UNCHANGED <<enabled, stop_on_error, pre_processing_rules, post_processing_rules,
                   n_entries, phase, raised>>
    /\ UNCHANGED <<rule_configs, nonEngineVars>>

IsError(r) == r.severity = "error" /\ ~r.passed

\* A slip in check_for_errors: only the first error is reported.
ErrorsOf_FirstOnly(rs) ==
    LET errors == SelectSeq(rs, IsError)
    IN  IF errors = <<>> THEN <<>> ELSE <<errors[1]>>

\* ValidationEngine.check_for_errors, line 335
ErrorsOf(rs) == SelectSeq(rs, IsError)

\* ValidationEngine.check_for_errors, lines 336-341
DataQualityError(errors) ==
    [type  |-> "DataQualityError",
     count |-> Len(errors),
     lines |-> [i \in 1..Len(errors) |-> <<errors[i].rule_name, errors[i].message>>]]

check_for_errors(rs) ==
    LET errors == ErrorsOf(rs)
    IN  IF errors # <<>> THEN DataQualityError(errors) ELSE NoError

\* The caller hands the results of the run to check_for_errors.
CheckForErrors ==
    /\ pc = "returned"
    /\ raised' = check_for_errors(results)
    /\ pc' = "checked"
    /\ UNCHANGED <<enabled, stop_on_error, pre_processing_rules, post_processing_rules,
                   n_entries, phase, context, idx, results, evaluated>>
    /\ UNCHANGED <<rule_configs, nonEngineVars>>

NoContext == [df |-> FALSE, df_source |-> FALSE, df_processed |-> FALSE, facts |-> <<>>]

\* The caller is done with the results of a run (depivot_file goes on to the
\* next phase or the next sheet); the engine is used again.
Discard ==
    /\ pc \in {"returned", "checked"}
    /\ raised = NoError
    /\ pc' = "ready"
    /\ context' = NoContext
    /\ results' = <<>>
    /\ evaluated' = <<>>
    /\ idx' = 1
    /\ UNCHANGED <<enabled, stop_on_error, pre_processing_rules, post_processing_rules,
                   n_entries, phase, raised>>
    /\ UNCHANGED <<rule_configs, nonEngineVars>>

(***************************************************************************)
(* Numbers.  A float is a fixed-point number of FracDigits decimal places  *)
(* (v counts units of 10^-FracDigits) or NaN; arithmetic on NaN gives NaN  *)
(* and every comparison with NaN is false, as in IEEE 754.  A cell of a    *)
(* frame holds a float (NaN for a missing cell) or a str, a sequence of    *)
(* characters.                                                             *)
(***************************************************************************)
Scale == 10 ^ FracDigits

NaN == [nan |-> TRUE, v |-> 0]

Num(n) == [nan |-> FALSE, v |-> n]

FAdd(a, b) == IF a.nan \/ b.nan THEN NaN ELSE Num(a.v + b.v)

FSub(a, b) == IF a.nan \/ b.nan THEN NaN ELSE Num(a.v - b.v)

FNeg(a) == IF a.nan THEN NaN ELSE Num(0 - a.v)

FAbs(a) == IF a.nan THEN NaN ELSE Num(IF a.v < 0 THEN 0 - a.v ELSE a.v)

FLess(a, b) == ~a.nan /\ ~b.nan /\ a.v < b.v

FGreater(a, b) == ~a.nan /\ ~b.nan /\ a.v > b.v

FloatCell(x) == [kind |-> "float", f |-> x, text |-> <<>>]

StrCell(t) == [kind |-> "str", f |-> NaN, text |-> t]

\* A Python int: f.v holds the integer itself.
IntCell(n) == [kind |-> "int", f |-> [nan |-> FALSE, v |-> n], text |-> <<>>]

Digits == {"0", "1", "2", "3", "4", "5", "6", "7", "8", "9"}

DigitValue(c) ==
    CASE c = "0" -> 0 [] c = "1" -> 1 [] c = "2" -> 2 [] c = "3" -> 3 [] c = "4" -> 4
      [] c = "5" -> 5 [] c = "6" -> 6 [] c = "7" -> 7 [] c = "8" -> 8 [] c = "9" -> 9

RECURSIVE IntegerPart(_)
IntegerPart(ds) ==
    IF ds = <<>> THEN 0
    ELSE 10 * IntegerPart(SubSeq(ds, 1, Len(ds) - 1)) + DigitValue(ds[Len(ds)])

\* The digits after the point, in units of 10^-FracDigits (further digits
\* are below the resolution of the model and dropped).
RECURSIVE FractionPart(_, _)
FractionPart(ds, place) ==
    IF ds = <<>> \/ place > FracDigits THEN 0
    ELSE DigitValue(ds[1]) * (Scale \div (10 ^ place)) + FractionPart(Tail(ds), place + 1)

\* Python's float() on a str of the characters clean_numeric_value keeps, and
\* pandas' numeric parser on a str: an optional sign, digits with at most one
\* point; anything else is a ValueError, here NaN.
float(s) ==
    LET neg  == s # <<>> /\ s[1] = "-"
        body == IF neg THEN Tail(s) ELSE s
        dots == { i \in 1..Len(body) : body[i] = "." }
        ok   == /\ \A i \in 1..Len(body) : body[i] \in Digits \cup {"."}
                /\ \E i \in 1..Len(body) : body[i] \in Digits
                /\ Cardinality(dots) <= 1
        dot  == IF dots = {} THEN Len(body) + 1 ELSE CHOOSE d \in dots : TRUE
        mag  == IntegerPart(SubSeq(body, 1, dot - 1)) * Scale
                  + FractionPart(SubSeq(body, dot + 1, Len(body)), 1)
    IN  IF ok THEN Num(IF neg THEN 0 - mag ELSE mag) ELSE NaN

\* clean_numeric_value, line 112
IsNegative(s) ==
    (\E i \in 1..Len(s) : s[i] = "(") /\ (\E i \in 1..Len(s) : s[i] = ")")

\* clean_numeric_value (core.py): a float cell is returned as it is (NaN for
\* a missing one); a str is stripped to digits . , ( ) -, parentheses mean a
\* negative, commas go, and float() parses the rest.
clean_numeric_value(value) ==
    IF value.kind = "float" THEN value.f
    ELSE IF value.kind = "int" THEN Num(value.f.v * Scale)
    ELSE LET Kept(c)     == c \in Digits \cup {".", ",", "(", ")", "-"}
             NotParen(c) == c \notin {"(", ")"}
             NotComma(c) == c # ","
             value_str   == SelectSeq(value.text, Kept)
             is_negative == IsNegative(value_str)
             unwrapped   == IF is_negative THEN SelectSeq(value_str, NotParen)
                            ELSE value_str
             result      == float(SelectSeq(unwrapped, NotComma))
         IN  IF is_negative THEN FNeg(result) ELSE result

\* float(value) of line 102 raises OverflowError on an int no float holds;
\* the except clause of line 121 is around the parse of line 120 only.
clean_numeric_value_call(value) ==
    IF value.kind = "int" /\ (value.f.v > MaxFloat \/ value.f.v < 0 - MaxFloat)
    THEN [raised |-> TRUE, exc |-> "OverflowError", result |-> NaN]
    ELSE [raised |-> FALSE, exc |-> NoException, result |-> clean_numeric_value(value)]

\* pd.to_numeric(errors='coerce') on one cell: no stripping, a str that is
\* not a number becomes NaN.
to_numeric(value) ==
    IF value.kind = "float" THEN value.f ELSE float(value.text)

\* Python's sum() over floats: NaN propagates.
RECURSIVE sum(_)
sum(xs) == IF xs = <<>> THEN Num(0) ELSE FAdd(sum(SubSeq(xs, 1, Len(xs) - 1)), xs[Len(xs)])

\* pandas' Series.sum() over a float column: NaN is skipped, no row gives 0.
RECURSIVE nansum(_)
nansum(xs) ==
    IF xs = <<>> THEN Num(0)
    ELSE LET x == xs[Len(xs)]
         IN  FAdd(nansum(SubSeq(xs, 1, Len(xs) - 1)), IF x.nan THEN Num(0) ELSE x)

RECURSIVE Concat(_)
Concat(cells) == IF cells = <<>> THEN <<>> ELSE cells[1].text \o Concat(Tail(cells))

\* pandas' Series.sum() over a source column: a float column sums skipping
\* NaN; an object column of str concatenates.
SeriesSum(cells) ==
    IF \A i \in 1..Len(cells) : cells[i].kind = "float"
    THEN FloatCell(nansum([i \in 1..Len(cells) |-> cells[i].f]))
    ELSE StrCell(Concat(cells))

(***************************************************************************)
(* Frames.  A source frame is a sequence of rows, each with its ID and a   *)
(* cell per value column; a column holds floats or strs, not both.  A      *)
(* processed frame is a sequence of rows ID, variable, value.              *)
(***************************************************************************)
ValueColumns == <<"Jan", "Feb">>

ValueVarsChoices == { SubSeq(ValueColumns, 1, n) : n \in 1..Len(ValueColumns) }

IdValues == {101, 102}

FloatCells == { FloatCell(NaN), FloatCell(Num(0)), FloatCell(Num(Scale)) }

StrCells == { StrCell(<<"$", "1">>), StrCell(<<"(", "2", ")">>) }

Range(f) == { f[x] : x \in DOMAIN f }

ColumnsOf(n) == [1..n -> FloatCells] \cup [1..n -> StrCells]

SourceFrames(n, value_vars) ==
    { [i \in 1..n |-> [ID |-> ids[i], cells |-> [c \in Range(value_vars) |-> cols[c][i]]]] :
        ids \in [1..n -> IdValues], cols \in [Range(value_vars) -> ColumnsOf(n)] }

\* pd.melt as depivot_sheet calls it, then clean_numeric_value on the value
\* column as depivot_file applies it: column by column, row by row.  With no
\* identifier column depivot_sheet numbers the rows.
melt(df, ids, value_vars) ==
    LET n == Len(df)
    IN  [k \in 1..(n * Len(value_vars)) |->
            LET c == value_vars[((k - 1) \div n) + 1]
                i == ((k - 1) % n) + 1
            IN  [ID       |-> IF ids = <<>> THEN i ELSE df[i].ID,
                 variable |-> c,
                 value    |-> clean_numeric_value(df[i].cells[c])]]

DropRow(df, k) == [i \in 1..(Len(df) - 1) |-> IF i < k THEN df[i] ELSE df[i + 1]]

Shifts == { Scale \div 200, Scale \div 100, 0 - (Scale \div 100) }

\* The processed frames paired with a source frame: its exact reshape, the
\* reshape with one row lost, the reshape with its first value off by a bit.
ProcessedFrames(df, ids, value_vars) ==
    LET exact == melt(df, ids, value_vars)
    IN  {exact}
          \cup { DropRow(exact, k) : k \in 1..Len(exact) }
          \cup { [exact EXCEPT ![1].value = FAdd(@, Num(d))] : d \in IF exact = <<>> THEN {} ELSE Shifts }

(***************************************************************************)
(* check_totals_match (quality_rules.py), the arithmetic of its verdict.   *)
(***************************************************************************)
DefaultTolerance == Scale \div 100

CheckTotalsMatch_source_total(df_source, value_vars) ==
    nansum([c \in 1..Len(value_vars) |->
              nansum([i \in 1..Len(df_source) |-> to_numeric(df_source[i].cells[value_vars[c]])])])

CheckTotalsMatch_processed_total(df_processed) ==
    nansum([i \in 1..Len(df_processed) |-> df_processed[i].value])

CheckTotalsMatch_passed(df_source, df_processed, value_vars, tolerance) ==
    LET difference == FAbs(FSub(CheckTotalsMatch_source_total(df_source, value_vars),
                                CheckTotalsMatch_processed_total(df_processed)))
    IN  ~FGreater(difference, Num(tolerance))

(***************************************************************************)
(* create_validation_report (core.py).  A report row is a dict; a sheet is *)
(* named by its position in sheets_data.                                   *)
(***************************************************************************)
ALL_SHEETS == 0

None == "None"

Tolerance == Scale \div 100

\* A slip in the verdict: a difference of exactly the tolerance is accepted.
MatchOf_Inclusive(difference) ==
    IF ~FGreater(FAbs(difference), Num(Tolerance)) THEN "OK" ELSE "MISMATCH"

\* lines 335, 351, 365
MatchOf(difference) ==
    IF FLess(FAbs(difference), Num(Tolerance)) THEN "OK" ELSE "MISMATCH"

Totals(source_total, processed_total) ==
    [Source_Total    |-> source_total,
     Processed_Total |-> processed_total,
     Difference      |-> FSub(processed_total, source_total),
     Match           |-> MatchOf(FSub(processed_total, source_total))]

\* lines 316-336: the row for one source row
GroupRow(s, ids, row) ==
    LET id_values       == IF ids = <<>> THEN EmptyDict ELSE "ID" :> row.ID
        source_total    == sum([c \in 1..Len(s.value_vars) |->
                                  clean_numeric_value(row.cells[s.value_vars[c]])])
        matching        == SelectSeq(s.df_processed, LAMBDA p : p.ID = row.ID)
        processed_total == nansum([i \in 1..Len(matching) |-> matching[i].value])
    IN  ("Sheet" :> s.name) @@ id_values @@ Totals(source_total, processed_total)

\* A slip in the sheet total: the processed values are summed as Python's
\* sum() does, a missing value making the total NaN.
SheetTotalRow_PythonSum(s) ==
    LET sheet_source_total    ==
            sum([c \in 1..Len(s.value_vars) |->
                   clean_numeric_value(SeriesSum(
                       [i \in 1..Len(s.df_source) |-> s.df_source[i].cells[s.value_vars[c]]]))])
        sheet_processed_total ==
            sum([i \in 1..Len(s.df_processed) |-> s.df_processed[i].value])
    IN  ("Sheet" :> s.name) @@ ("Category" :> "SHEET_TOTAL")
          @@ Totals(sheet_source_total, sheet_processed_total)

\* lines 339-352
SheetTotalRow(s) ==
    LET sheet_source_total    ==
            sum([c \in 1..Len(s.value_vars) |->
                   clean_numeric_value(SeriesSum(
                       [i \in 1..Len(s.df_source) |-> s.df_source[i].cells[s.value_vars[c]]]))])
        sheet_processed_total ==
            nansum([i \in 1..Len(s.df_processed) |-> s.df_processed[i].value])
    IN  ("Sheet" :> s.name) @@ ("Category" :> "SHEET_TOTAL")
          @@ Totals(sheet_source_total, sheet_processed_total)

IsSheetTotal(row) == Get(row, "Category", None) = "SHEET_TOTAL"

\* A slip in the grand total: every row is summed, not only the sheet totals.
GrandTotalRow_AllRows(rows) ==
    ("Sheet" :> ALL_SHEETS) @@ ("Category" :> "GRAND_TOTAL")
      @@ Totals(sum([i \in 1..Len(rows) |-> rows[i].Source_Total]),
                sum([i \in 1..Len(rows) |-> rows[i].Processed_Total]))

\* lines 355-366
GrandTotalRow(rows) ==
    LET sheet_totals == SelectSeq(rows, IsSheetTotal)
    IN  ("Sheet" :> ALL_SHEETS) @@ ("Category" :> "GRAND_TOTAL")
          @@ Totals(sum([i \in 1..Len(sheet_totals) |-> sheet_totals[i].Source_Total]),
                    sum([i \in 1..Len(sheet_totals) |-> sheet_totals[i].Processed_Total]))

NoSheet == [name |-> ALL_SHEETS, df_source |-> <<>>, df_processed |-> <<>>, value_vars |-> <<>>]

\* No report is being built.
ReportIdle ==
    /\ id_vars = <<>>
    /\ sheet = NoSheet
    /\ n_sheets = 0
    /\ n_rows = 0
    /\ row_i = 1
    /\ validation_rows = <<>>
    /\ totals_rule = <<>>
    /\ exact_sheets = <<>>
    /\ dropped = <<>>
    /\ rpc = "idle"

\* create_validation_report is entered: line 305.
ReportInit ==
    /\ id_vars \in {<<>>, <<"ID">>}
    /\ sheet = NoSheet
    /\ n_sheets = 0
    /\ n_rows = 0
    /\ row_i = 1
    /\ validation_rows = <<>>
    /\ totals_rule = <<>>
    /\ exact_sheets = <<>>
    /\ dropped = <<>>
    /\ rpc = "sheets"

\* No engine is at work.
EngineIdle ==
    /\ enabled = TRUE
    /\ stop_on_error = TRUE
    /\ pre_processing_rules = <<>>
    /\ post_processing_rules = <<>>
    /\ n_entries = 0
    /\ pc = "idle"
    /\ phase = "pre"
    /\ context = NoContext
    /\ idx = 1
    /\ results = <<>>
    /\ evaluated = <<>>
    /\ raised = NoError
    /\ rule_configs = [pre |-> <<>>, post |-> <<>>]

\* How df_processed falls short of the reshape of df_source: numeric says the
\* value columns hold floats only, values holds v when df_processed is the
\* reshape without one row whose value was v.
DroppedFrom(df_source, df_processed, ids, value_vars) ==
    LET exact == melt(df_source, ids, value_vars)
    IN  [numeric |-> \A i \in 1..Len(df_source) : \A c \in Range(value_vars) :
                        df_source[i].cells[c].kind = "float",
         values  |-> { exact[k].value : k \in { j \in 1..Len(exact) :
                                                 df_processed = DropRow(exact, j) } }]

\* lines 307-310: the loop takes the next sheet.  Its frames were made by
\* depivot_file, where check_totals_match at its default tolerance saw them.
NextSheet ==
    /\ rpc = "sheets"
    /\ n_sheets < MaxSheets
    /\ \E n \in 0..(MaxRows - n_rows), value_vars \in ValueVarsChoices :
         \E df_source \in SourceFrames(n, value_vars) :
           \E df_processed \in ProcessedFrames(df_source, id_vars, value_vars) :
             /\ sheet' = [name |-> n_sheets + 1, df_source |-> df_source,
                          df_processed |-> df_processed, value_vars |-> value_vars]
             /\ exact_sheets' = Append(exact_sheets,
                                       df_processed = melt(df_source, id_vars, value_vars))
             /\ dropped' = Append(dropped, DroppedFrom(df_source, df_processed,
                                                       id_vars, value_vars))
             /\ totals_rule' = Append(totals_rule,
                                      CheckTotalsMatch_passed(df_source, df_processed,
                                                              value_vars, DefaultTolerance))
             /\ n_rows' = n_rows + n
             /\ rpc' = IF id_vars # <<>> /\ n > 0 THEN "rows" ELSE "sheet_total"
    /\ n_sheets' = n_sheets + 1
    /\ row_i' = 1
    /\ UNCHANGED <<id_vars, validation_rows>>
    /\ UNCHANGED nonReportVars

\* lines 315-336: one iteration over df_source.iterrows()
ReportRow ==
    /\ rpc = "rows"
    /\ validation_rows' = Append(validation_rows, GroupRow(sheet, id_vars, sheet.df_source[row_i]))
    /\ row_i' = row_i + 1
    /\ rpc' = IF row_i = Len(sheet.df_source) THEN "sheet_total" ELSE "rows"
    /\ UNCHANGED <<id_vars, sheet, n_sheets, n_rows, totals_rule, exact_sheets, dropped>>
    /\ UNCHANGED nonReportVars

\* lines 339-352
ReportSheetTotal ==
    /\ rpc = "sheet_total"
    /\ validation_rows' = Append(validation_rows, SheetTotalRow(sheet))
    /\ sheet' = NoSheet
    /\ rpc' = "sheets"
    /\ UNCHANGED <<id_vars, n_sheets, n_rows, row_i, totals_rule, exact_sheets, dropped>>
    /\ UNCHANGED nonReportVars

\* lines 355-368: sheets_data is exhausted
ReportGrandTotal ==
    /\ rpc = "sheets"
    /\ validation_rows' = Append(validation_rows, GrandTotalRow(validation_rows))
    /\ rpc' = "done"
    /\ UNCHANGED <<id_vars, sheet, n_sheets, n_rows, row_i, totals_rule, exact_sheets, dropped>>
    /\ UNCHANGED nonReportVars

(***************************************************************************)
(* TemplateValidator (template_validators.py).  Lists are sequences        *)
(* without repetition over two names.  A check returns what it did: raised *)
(* TemplateError or not, and the warnings it printed before.               *)
(***************************************************************************)
Lists(S) ==
    UNION { { f \in [1..n -> S] : \A i, j \in 1..n : i # j => f[i] # f[j] } :
              n \in 0..Cardinality(S) }

Contains(list, x) == \E i \in 1..Len(list) : list[i] = x

\* [x for x in list if x not in other]
NotIn(list, other) ==
    LET Absent(x) == ~Contains(other, x)
    IN  SelectSeq(list, Absent)

\* [x for x in list if x in other]
AlsoIn(list, other) ==
    LET Present(x) == Contains(other, x)
    IN  SelectSeq(list, Present)

SheetNames == {"Actuals", "Budget"}

ColumnNames == {"Site", "Category"}

MergedRanges == {"A1:B1"}

CheckDid(raised_, warned_) == [raised |-> raised_, warned |-> warned_]

IsErrorSeverity(check) == Get(check, "severity", None) = "error"

\* The tail shared by the severity-dependent violations: raise TemplateError
\* if the check's severity is error, else print a warning.
RaiseOrWarn(check, warning, before) ==
    IF IsErrorSeverity(check) THEN CheckDid(TRUE, before)
    ELSE CheckDid(FALSE, before \cup {warning})

\* TemplateValidator._check_expected_sheets
check_expected_sheets(sheetnames, check) ==
    LET required    == Get(check["params"], "required_sheets", <<>>)
        allow_extra == Get(check["params"], "allow_extra_sheets", TRUE)
        missing     == NotIn(required, sheetnames)
        extra       == NotIn(sheetnames, required)
    IN  IF missing # <<>> THEN CheckDid(TRUE, {})
        ELSE IF ~allow_extra /\ extra # <<>> THEN RaiseOrWarn(check, "extra_sheets", {})
        ELSE CheckDid(FALSE, {})

\* TemplateValidator._check_sheet_count
check_sheet_count(sheetnames, check) ==
    LET min_sheets == Get(check["params"], "min_sheets", 1)
        has_max    == "max_sheets" \in DOMAIN check["params"]   \* max_sheets is not None
        count      == Len(sheetnames)
    IN  IF count < min_sheets THEN CheckDid(TRUE, {})
        ELSE IF has_max /\ count > check["params"]["max_sheets"]
             THEN RaiseOrWarn(check, "sheet_count_above_max", {})
        ELSE CheckDid(FALSE, {})

\* A slip in _check_header_row: a missing column follows the severity.
check_header_row_BySeverity(ws, check) ==
    LET expected == Get(check["params"], "expected_columns", <<>>)
        missing  == NotIn(expected, ws.header)
    IN  IF missing # <<>> THEN RaiseOrWarn(check, "header_column_missing", {})
        ELSE CheckDid(FALSE, {})

\* TemplateValidator._check_header_row
check_header_row(ws, check) ==
    LET expected    == Get(check["params"], "expected_columns", <<>>)
        exact_order == Get(check["params"], "exact_order", FALSE)
        allow_extra == Get(check["params"], "allow_extra_columns", TRUE)
        actual      == ws.header
        missing     == NotIn(expected, actual)
        extra       == NotIn(actual, expected)
        after_extra == IF ~allow_extra /\ extra # <<>>
                       THEN RaiseOrWarn(check, "extra_header_columns", {})
                       ELSE CheckDid(FALSE, {})
    IN  IF missing # <<>> THEN CheckDid(TRUE, {})
        ELSE IF after_extra.raised THEN after_extra
        ELSE IF exact_order /\ AlsoIn(actual, expected) # expected
             THEN CheckDid(TRUE, after_extra.warned)
        ELSE after_extra

\* TemplateValidator._check_merged_cells
check_merged_cells(ws, check) ==
    LET allowed        == Get(check["params"], "allowed", FALSE)
        allowed_ranges == Get(check["params"], "allowed_ranges", {})
        merged         == ws.merged
        disallowed     == merged \ allowed_ranges
    IN  IF ~allowed /\ merged # {}
        THEN IF allowed_ranges # {} /\ disallowed = {} THEN CheckDid(FALSE, {})
             ELSE RaiseOrWarn(check, "merged_cells", {})
        ELSE CheckDid(FALSE, {})

\* TemplateValidator._check_cell_formats: ws.text_cells holds the columns of
\* row 1 with a cell that is neither a number nor in a number format.
check_cell_formats(ws, check) ==
    LET check_types     == Get(check["params"], "check_types", TRUE)
        numeric_columns == Get(check["params"], "numeric_columns", <<>>)
        InHeader(col)   == Contains(ws.header, col) /\ col \in ws.text_cells
        issues          == SelectSeq(numeric_columns, InHeader)
    IN  IF ~check_types \/ numeric_columns = <<>> THEN CheckDid(FALSE, {})
        ELSE IF issues # <<>> THEN RaiseOrWarn(check, "non_numeric_format", {})
        ELSE CheckDid(FALSE, {})

\* A slip in the order check: the whole list is compared in both modes.
check_column_order_AlwaysStrict(df, check) ==
    IF df.columns # Get(check["params"], "expected_order", <<>>)
    THEN RaiseOrWarn(check, "frame_column_order", {})
    ELSE CheckDid(FALSE, {})

\* TemplateValidator._check_column_order
check_column_order(df, check) ==
    LET expected_order == Get(check["params"], "expected_order", <<>>)
        strict         == Get(check["params"], "strict", FALSE)
        actual         == df.columns
    IN  IF strict
        THEN IF actual # expected_order THEN RaiseOrWarn(check, "frame_column_order", {})
             ELSE CheckDid(FALSE, {})
        ELSE IF AlsoIn(actual, expected_order) # expected_order
             THEN RaiseOrWarn(check, "frame_column_order", {})
             ELSE CheckDid(FALSE, {})

\* TemplateValidator._check_required_columns
check_required_columns(df, check) ==
    LET required == Get(check["params"], "columns", <<>>)
        missing  == NotIn(required, df.columns)
    IN  IF missing # <<>> THEN CheckDid(TRUE, {}) ELSE CheckDid(FALSE, {})

\* The dispatch on check_type in the loop of each validate_*; a check type the
\* phase does not know is passed over.
RunCheck(ph, subj, check) ==
    LET check_type == Get(check, "check", None)
    IN  CASE ph = "file" /\ check_type = "expected_sheets" ->
               check_expected_sheets(subj.sheetnames, check)
          [] ph = "file" /\ check_type = "sheet_count" ->
               check_sheet_count(subj.sheetnames, check)
          [] ph = "sheet" /\ check_type = "header_row" -> check_header_row(subj, check)
          [] ph = "sheet" /\ check_type = "merged_cells" -> check_merged_cells(subj, check)
          [] ph = "sheet" /\ check_type = "cell_formats" -> check_cell_formats(subj, check)
          [] ph = "frame" /\ check_type = "column_order" -> check_column_order(subj, check)
          [] ph = "frame" /\ check_type = "required_columns" ->
               check_required_columns(subj, check)
          [] OTHER -> CheckDid(FALSE, {})

\* What a call is given: the workbook behind input_file (can it be opened,
\* its sheet names), the sheet sheet_name (is it in the workbook, its header
\* row, its merged ranges, its columns holding text), the frame's columns.
NoSubject ==
    [openable |-> TRUE, present |-> TRUE, sheetnames |-> <<>>, header |-> <<>>,
     merged |-> {}, text_cells |-> {}, columns |-> <<>>]

Subjects(ph) ==
    CASE ph = "file" ->
           { [NoSubject EXCEPT !.openable = o, !.sheetnames = names] :
               o \in BOOLEAN, names \in Lists(SheetNames) \ {<<>>} }
      [] ph = "sheet" ->
           { [NoSubject EXCEPT !.openable = o, !.present = p, !.header = h,
                               !.merged = m, !.text_cells = t] :
               o \in BOOLEAN, p \in BOOLEAN, h \in Lists(ColumnNames),
               m \in SUBSET MergedRanges, t \in {{}, {"Site"}} }
      [] ph = "frame" ->
           { [NoSubject EXCEPT !.columns = c] : c \in Lists(ColumnNames) }

\* The params a configured check may carry, by check type.
ParamsOf(check_type) ==
    CASE check_type = "expected_sheets" ->
           { r @@ a : r \in Optional("required_sheets", Lists(SheetNames)),
                      a \in Optional("allow_extra_sheets", BOOLEAN) }
      [] check_type = "sheet_count" ->
           { lo @@ hi : lo \in Optional("min_sheets", {1, 2}),
                        hi \in Optional("max_sheets", {1}) }
      [] check_type = "header_row" ->
           { e @@ x @@ a : e \in Optional("expected_columns", Lists(ColumnNames)),
                           x \in Optional("exact_order", BOOLEAN),
                           a \in Optional("allow_extra_columns", BOOLEAN) }
      [] check_type = "merged_cells" ->
           { a @@ r : a \in Optional("allowed", BOOLEAN),
                      r \in Optional("allowed_ranges", {MergedRanges}) }
      [] check_type = "cell_formats" ->
           { t @@ n : t \in Optional("check_types", BOOLEAN),
                      n \in Optional("numeric_columns", Lists(ColumnNames)) }
      [] check_type = "column_order" ->
           { e @@ x : e \in Optional("expected_order", Lists(ColumnNames)),
                      x \in Optional("strict", BOOLEAN) }
      [] check_type = "required_columns" ->
           Optional("columns", Lists(ColumnNames))
      [] OTHER -> {EmptyDict}

CheckTypes(ph) ==
    CASE ph = "file" -> {"expected_sheets", "sheet_count", "no_such_check"}
      [] ph = "sheet" -> {"header_row", "merged_cells", "cell_formats", "no_such_check"}
      [] ph = "frame" -> {"column_order", "required_columns", "no_such_check"}

\* The entries of the phase's list of the configuration.
Checks(ph) ==
    UNION { { ("check" :> t) @@ ("params" :> params) @@ e @@ sv :
                params \in ParamsOf(t),
                e \in Optional("enabled", BOOLEAN),
                sv \in Optional("severity", {"error", "warning"}) } :
            t \in CheckTypes(ph) }

\* The violations a check is configured to look for and the subject shows.
ViolationsOf(ph, subj, check) ==
    LET t      == check["check"]
        params == check["params"]
        Has(key, default) == Get(params, key, default)
        If(cond, name) == IF cond THEN {name} ELSE {}
    IN  CASE ph = "file" /\ t = "expected_sheets" ->
               If(\E x \in Range(Has("required_sheets", <<>>)) : x \notin Range(subj.sheetnames),
                  "required_sheet_missing")
               \cup If(~Has("allow_extra_sheets", TRUE)
                         /\ \E x \in Range(subj.sheetnames) :
                               x \notin Range(Has("required_sheets", <<>>)),
                       "extra_sheets")
          [] ph = "file" /\ t = "sheet_count" ->
               If(Len(subj.sheetnames) < Has("min_sheets", 1), "sheet_count_below_min")
               \cup If("max_sheets" \in DOMAIN params
                         /\ Len(subj.sheetnames) > Has("max_sheets", 0),
                       "sheet_count_above_max")
          [] ph = "sheet" /\ t = "header_row" ->
               If(\E x \in Range(Has("expected_columns", <<>>)) : x \notin Range(subj.header),
                  "header_column_missing")
               \cup If(~Has("allow_extra_columns", TRUE)
                         /\ \E x \in Range(subj.header) :
                               x \notin Range(Has("expected_columns", <<>>)),
                       "extra_header_columns")
               \cup If(Has("exact_order", FALSE)
                         /\ AlsoIn(subj.header, Has("expected_columns", <<>>))
                               # Has("expected_columns", <<>>),
                       "header_order_mismatch")
          [] ph = "sheet" /\ t = "merged_cells" ->
               If(~Has("allowed", FALSE) /\ subj.merged \ Has("allowed_ranges", {}) # {},
                  "merged_cells")
          [] ph = "sheet" /\ t = "cell_formats" ->
               If(Has("check_types", TRUE)
                    /\ \E x \in Range(Has("numeric_columns", <<>>)) :
                          x \in Range(subj.header) /\ x \in subj.text_cells,
                  "non_numeric_format")
          [] ph = "frame" /\ t = "column_order" ->
               If(IF Has("strict", FALSE)
                  THEN subj.columns # Has("expected_order", <<>>)
                  ELSE AlsoIn(subj.columns, Has("expected_order", <<>>))
                          # Has("expected_order", <<>>),
                  "frame_column_order")
          [] ph = "frame" /\ t = "required_columns" ->
               If(\E x \in Range(Has("columns", <<>>)) : x \notin Range(subj.columns),
                  "frame_column_missing")
          [] OTHER -> {}

\* A slip in the validate_* methods: the enable flag is not looked at.
IsNoOp_Never(en) == FALSE

\* validate_*: "if not self.enabled: return"
IsNoOp(en) == ~en

\* TemplateValidator.__init__
TemplateInit ==
    /\ tv_enabled \in { Get(config, "enabled", TRUE) : config \in Optional("enabled", BOOLEAN) }
    /\ tv_phase = "file"
    /\ tpc = "idle"
    /\ wb = "none"
    /\ subject = NoSubject
    /\ n_checks = 0
    /\ tv_log = <<>>
    /\ tv_raised = NoException

\* No template validator is at work.
TemplateIdle ==
    /\ tv_enabled = TRUE
    /\ tv_phase = "file"
    /\ tpc = "none"
    /\ wb = "none"
    /\ subject = NoSubject
    /\ n_checks = 0
    /\ tv_log = <<>>
    /\ tv_raised = NoException

\* validate_file_structure, validate_sheet_template, validate_dataframe_template
\* up to the loop over the phase's checks: the enable test, load_workbook for
\* the two phases that read the file, the test that the sheet is there.
CallValidate(ph) ==
    /\ tpc = "idle"
    /\ tv_phase' = ph
    /\ n_checks' = 0
    /\ tv_log' = <<>>
    /\ \E subj \in Subjects(ph) :
         /\ subject' = subj
         /\ IF IsNoOp(tv_enabled)
            THEN tpc' = "returned" /\ wb' = "none" /\ tv_raised' = NoException
            ELSE IF ph # "frame" /\ ~subj.openable
            THEN tpc' = "raised" /\ wb' = "none" /\ tv_raised' = "TemplateError"
            ELSE IF ph = "sheet" /\ ~subj.present
            THEN tpc' = "returned" /\ wb' = "closed" /\ tv_raised' = NoException
            ELSE /\ tpc' = "checking"
                 /\ wb' = IF ph = "frame" THEN "none" ELSE "open"
                 /\ tv_raised' = NoException
    /\ UNCHANGED tv_enabled
    /\ UNCHANGED nonTemplateVars

ValidateFileStructure == CallValidate("file")

ValidateSheetTemplate == CallValidate("sheet")

ValidateDataframeTemplate == CallValidate("frame")

\* One iteration of the loop over the phase's checks.  A check that raises
\* ends the call there: the statements after the loop are not reached.
TakeCheck ==
    /\ tpc = "checking"
    /\ n_checks < MaxChecks
    /\ n_checks' = n_checks + 1
    /\ \E check \in Checks(tv_phase) :
         IF ~Get(check, "enabled", TRUE)
         THEN UNCHANGED <<tpc, tv_log, tv_raised>>
         ELSE LET did == RunCheck(tv_phase, subject, check)
              IN  /\ tv_log' = Append(tv_log,
                                      [violations     |-> ViolationsOf(tv_phase, subject, check),
                                       error_severity |-> IsErrorSeverity(check),
                                       raised         |-> did.raised,
                                       warned         |-> did.warned])
                  /\ tpc' = IF did.raised THEN "raised" ELSE "checking"
                  /\ tv_raised' = IF did.raised THEN "TemplateError" ELSE NoException
    /\ UNCHANGED <<tv_enabled, tv_phase, wb, subject>>
    /\ UNCHANGED nonTemplateVars

\* The loop is over: wb.close() in the two phases that opened a workbook,
\* then the call returns.
ChecksDone ==
    /\ tpc = "checking"
    /\ wb' = IF tv_phase = "frame" THEN wb ELSE "closed"
    /\ tpc' = "returned"
    /\ UNCHANGED <<tv_enabled, tv_phase, subject, n_checks, tv_log, tv_raised>>
    /\ UNCHANGED nonTemplateVars

\* The caller goes on; the validator is called again.
CallOver ==
    /\ tpc \in {"returned", "raised"}
    /\ tpc' = "idle"
    /\ wb' = "none"
    /\ subject' = NoSubject
    /\ n_checks' = 0
    /\ tv_log' = <<>>
    /\ tv_raised' = NoException
    /\ UNCHANGED <<tv_enabled, tv_phase>>
    /\ UNCHANGED nonTemplateVars

(***************************************************************************)
(* depivot_file (core.py), the order of its steps.  What each step works   *)
(* on is left out; a step that can raise either does or does not.          *)
(***************************************************************************)
\* template: template_validation was given; quality: a ValidationEngine was
\* built; no_validate; sql_only and both decide where the output goes.
Options ==
    [template : BOOLEAN, quality : BOOLEAN, no_validate : BOOLEAN,
     sql_only : BOOLEAN, both : BOOLEAN]

excel_output(o) == ~o.sql_only                \* line 657

sql_output(o) == o.sql_only \/ o.both         \* line 658

\* A slip in the order: the pre-processing rules run after the reshape.
Following_RulesAfterReshape(step, k, n) ==
    CASE step = "file_structure" -> "sheet_template"
      [] step = "sheet_template" -> "read"
      [] step = "read"           -> "frame_template"
      [] step = "frame_template" -> "reshape"
      [] step = "reshape"        -> "pre_rules"
      [] step = "pre_rules"      -> "normalize"
      [] step = "normalize"      -> "post_rules"
      [] step = "post_rules"     -> IF k < n THEN "sheet_template" ELSE "report"
      [] step = "report"         -> "upload"
      [] step = "upload"         -> "write"
      [] step = "write"          -> "returned"

\* The steps in the order of the text of depivot_file: after step, with
\* sheet k of n in hand, comes Following(step, k, n).
Following(step, k, n) ==
    CASE step = "file_structure" -> "sheet_template"
      [] step = "sheet_template" -> "read"
      [] step = "read"           -> "frame_template"
      [] step = "frame_template" -> "pre_rules"
      [] step = "pre_rules"      -> "reshape"
      [] step = "reshape"        -> "normalize"
      [] step = "normalize"      -> "post_rules"
      [] step = "post_rules"     -> IF k < n THEN "sheet_template" ELSE "report"
      [] step = "report"         -> "upload"
      [] step = "upload"         -> "write"
      [] step = "write"          -> "returned"

\* A slip in the except clause of the loop: the error is printed and the
\* loop goes on.
AfterStep_Swallows(step, ok, k, n) == Following(step, k, n)

\* An exception raised by a step leaves depivot_file: from inside the loop
\* through the except clause of lines 621-625, elsewhere directly.
AfterStep(step, ok, k, n) == IF ok THEN Following(step, k, n) ELSE "raised"

PerSheetSteps ==
    {"sheet_template", "read", "frame_template", "pre_rules", "reshape", "normalize",
     "post_rules"}

Event(step, ok, has_error) ==
    [sheet     |-> IF step \in PerSheetSteps THEN sheet_k ELSE ALL_SHEETS,
     step      |-> step,
     ok        |-> ok,
     has_error |-> has_error]

\* The exception that leaves depivot_file when step raises.
ExceptionOf(step) ==
    CASE step = "file_structure"  -> "TemplateError"
      [] step \in PerSheetSteps   -> "FileProcessingError"
      [] step = "upload"          -> "DatabaseError"
      [] step = "write"           -> "FileProcessingError"
      [] OTHER                    -> "Exception"

\* The step fpc is taken: if it applies under the options it ends in one of
\* oks; if not it is passed over.
Take(step, applies, oks, has_error) ==
    /\ fpc = step
    /\ IF applies
       THEN \E ok \in oks :
              /\ trace' = Append(trace, Event(step, ok, has_error))
              /\ fpc' = AfterStep(step, ok, sheet_k, n_file_sheets)
              /\ file_raised' = IF ok THEN NoException ELSE ExceptionOf(step)
              /\ sheet_k' = IF ok /\ step = "post_rules" /\ sheet_k < n_file_sheets
                            THEN sheet_k + 1 ELSE sheet_k
       ELSE /\ fpc' = Following(step, sheet_k, n_file_sheets)
            /\ sheet_k' = IF step = "post_rules" /\ sheet_k < n_file_sheets
                          THEN sheet_k + 1 ELSE sheet_k
            /\ UNCHANGED <<trace, file_raised>>
    /\ UNCHANGED <<opts, n_file_sheets>>
    /\ UNCHANGED nonFileVars

\* lines 443-452: validate_file_structure
FileStructure == Take("file_structure", opts.template, BOOLEAN, FALSE) /\ UNCHANGED validation_df

\* lines 489-494: validate_sheet_template
SheetTemplate == Take("sheet_template", opts.template, BOOLEAN, FALSE) /\ UNCHANGED validation_df

\* lines 496-516: pd.read_excel, the summary rows filtered, the frame kept
ReadSheet == Take("read", TRUE, BOOLEAN, FALSE) /\ UNCHANGED validation_df

\* lines 518-520: validate_dataframe_template
FrameTemplate == Take("frame_template", opts.template, BOOLEAN, FALSE) /\ UNCHANGED validation_df

\* The lists of results a run of the engine may return to depivot_file.
ResultLists ==
    LET Some == { ValidationResult("rule", sv, passed, <<>>) :
                    sv \in {"error", "warning"}, passed \in BOOLEAN }
    IN  {<<>>} \cup { <<r>> : r \in Some } \cup { <<r1, r2>> : r1 \in Some, r2 \in Some }

HasError(rs) == \E i \in 1..Len(rs) : rs[i].severity = "error" /\ ~rs[i].passed

\* lines 522-544 and 593-614: the engine is run on the sheet and its results
\* are handed to check_for_errors.
RunRules(step) ==
    IF opts.quality
    THEN \E rs \in ResultLists :
            Take(step, TRUE, {check_for_errors(rs) = NoError}, HasError(rs))
    ELSE Take(step, FALSE, {}, FALSE)

PreRules == RunRules("pre_rules") /\ UNCHANGED validation_df

\* lines 546-567: validate_columns_exist, resolve_columns, depivot_sheet
Reshape == Take("reshape", TRUE, BOOLEAN, FALSE) /\ UNCHANGED validation_df

\* lines 569-591: clean_numeric_value on the value column, the DataType and
\* ReleaseDate columns
Normalize == Take("normalize", TRUE, {TRUE}, FALSE) /\ UNCHANGED validation_df

PostRules == RunRules("post_rules") /\ UNCHANGED validation_df

\* The reports create_validation_report may hand back for n sheets: per sheet
\* a SHEET_TOTAL row that agrees or not, then the GRAND_TOTAL row.
ReportsFor(n) ==
    { LET rows == [k \in 1..n |->
                     ("Sheet" :> k) @@ ("Category" :> "SHEET_TOTAL")
                       @@ Totals(Num(Scale), processed[k])]
      IN  Append(rows, GrandTotalRow(rows)) :
        processed \in [1..n -> {Num(Scale), Num(0)}] }

Mismatches(df) ==
    LET IsMismatch(row) == row.Match = "MISMATCH"
    IN  SelectSeq(df, IsMismatch)

\* A slip after the report: mismatches are raised.
ReportAccepted_NoMismatch(df) == Mismatches(df) = <<>>

\* lines 642-648: mismatches are printed as a warning, nothing more.
ReportAccepted(df) == TRUE

\* lines 627-648: the reconciliation report
Report ==
    IF ~opts.no_validate
    THEN \E df \in ReportsFor(n_file_sheets) :
            /\ Take("report", TRUE, {ReportAccepted(df)}, FALSE)
            /\ validation_df' = df
    ELSE Take("report", FALSE, {}, FALSE) /\ UNCHANGED validation_df

\* lines 669-718: the upload to SQL Server
Upload == Take("upload", sql_output(opts), BOOLEAN, FALSE) /\ UNCHANGED validation_df

\* lines 720-753: the output workbook
Write == Take("write", excel_output(opts), BOOLEAN, FALSE) /\ UNCHANGED validation_df

\* depivot_file is entered.
FileInit ==
    /\ opts \in Options
    /\ n_file_sheets \in 1..MaxSheets
    /\ sheet_k = 1
    /\ fpc = "file_structure"
    /\ trace = <<>>
    /\ file_raised = NoException
    /\ validation_df = <<>>

\* No file is being processed.
FileIdle ==
    /\ opts = [template |-> FALSE, quality |-> FALSE, no_validate |-> FALSE,
               sql_only |-> FALSE, both |-> FALSE]
    /\ n_file_sheets = 1
    /\ sheet_k = 1
    /\ fpc = "none"
    /\ trace = <<>>
    /\ file_raised = NoException
    /\ validation_df = <<>>

(***************************************************************************)
(* quality_rules.py: CheckValueRanges on the cells of a frame, and an      *)
(* engine whose pre-processing rules are all check_value_ranges, run more  *)
(* than once on one context.  The frame is as pd.read_excel returns it:    *)
(* rows numbered from 0.                                                   *)
(***************************************************************************)
MaxRuns == 2       \* runs of the pre-processing phase on one context

\* range specs: "min" and "max" are each optional.
RangeSpecs ==
    { lo @@ hi : lo \in Optional("min", {Num(Scale)}), hi \in Optional("max", {Num(0)}) }

\* "Mar" is a column no frame has.
RangeEntries ==
    { [column |-> "Jan", spec |-> rs] : rs \in RangeSpecs }
        \cup { [column |-> "Mar", spec |-> "min" :> Num(Scale)] }

\* params.ranges, a dict in the order of its items().
RangesChoices ==
    { <<>> } \cup { <<e>> : e \in RangeEntries }
        \cup { <<e1, e2>> : e1 \in { e \in RangeEntries : e.column = "Mar" },
                            e2 \in { e \in RangeEntries : e.column = "Jan"
                                                          /\ DOMAIN e.spec # {} } }

RangeRuleConfigs ==
    { [rule |-> "check_value_ranges", severity |-> sv, ranges |-> r] :
        sv \in {"error", "warning"}, r \in RangesChoices }

RangeFrames ==
    UNION { { df \in SourceFrames(n, <<"Jan">>) : \A i \in 1..n : df[i].ID = 101 } :
            n \in 1..MaxRows }

RangeContexts ==
    { [df |-> df, df_source |-> None, df_processed |-> None,
       id_vars |-> <<"ID">>, value_vars |-> <<"Jan">>, metadata |-> EmptyDict] :
        df \in RangeFrames }

HasColumn(df, col) == col = "ID" \/ col \in DOMAIN df[1].cells

\* lines 245-260: the rows of the column outside the range, counted.
\* pd.to_numeric returns a new column; a comparison with NaN is false.
CheckValueRanges_outlier_count(df, col, range_spec) ==
    LET numeric_col == [i \in 1..Len(df) |-> to_numeric(df[i].cells[col])]
        below(i) == "min" \in DOMAIN range_spec /\ FLess(numeric_col[i], range_spec["min"])
        above(i) == "max" \in DOMAIN range_spec /\ FGreater(numeric_col[i], range_spec["max"])
    IN  Cardinality({ i \in 1..Len(df) : below(i) \/ above(i) })

\* lines 240-270: the loop over ranges.items(), building issues.
CheckValueRanges_issues(df, ranges) ==
    LET found(e) == HasColumn(df, e.column)
                    /\ CheckValueRanges_outlier_count(df, e.column, e.spec) > 0
        issue(e) == [column |-> e.column,
                     outlier_count |-> CheckValueRanges_outlier_count(df, e.column, e.spec)]
        RECURSIVE walk(_)
        walk(k) == IF k > Len(ranges) THEN <<>>
                   ELSE IF found(ranges[k]) THEN <<issue(ranges[k])>> \o walk(k + 1)
                   ELSE walk(k + 1)
    IN  walk(1)

\* A slip in the conversion: the converted column is stored back in the frame.
CheckValueRanges_frame_Coerced(df, ranges) ==
    LET cols == { ranges[k].column : k \in 1..Len(ranges) }
    IN  [i \in 1..Len(df) |->
           [df[i] EXCEPT !.cells =
              [c \in DOMAIN df[i].cells |->
                 IF c \in cols THEN FloatCell(to_numeric(df[i].cells[c]))
                 ELSE df[i].cells[c]]]]

\* The frame of the context after validate: the code reads df.columns and
\* df[col] and assigns to neither (lines 237-270).
CheckValueRanges_frame(df, ranges) == df

\* CheckValueRanges.validate: the result, and the context as the call leaves it.
CheckValueRanges_run(rule, ctx) ==
    LET issues == CheckValueRanges_issues(ctx.df, rule.ranges)
        result == IF issues # <<>>
                  THEN ValidationResult("check_value_ranges", rule.severity, FALSE,
                           <<"message_template", issues[1].column, issues[1].outlier_count>>)
                  ELSE ValidationResult("check_value_ranges", rule.severity, TRUE,
                           <<"All values within expected ranges">>)
    IN  [result |-> result,
         context |-> [ctx EXCEPT !.df = CheckValueRanges_frame(ctx.df, rule.ranges)]]

NoRangeContext ==
    [df |-> <<>>, df_source |-> None, df_processed |-> None,
     id_vars |-> <<>>, value_vars |-> <<>>, metadata |-> EmptyDict]

RangesIdle ==
    /\ vr_rules = <<>>
    /\ vr_stop_on_error = TRUE
    /\ vr_context = NoRangeContext
    /\ vr_given = [context |-> NoRangeContext, rules |-> <<>>, stop_on_error |-> TRUE]
    /\ vr_idx = 1
    /\ vr_results = <<>>
    /\ vr_runs = <<>>
    /\ vr_pc = "none"

\* ValidationEngine.__init__ up to _load_rules, and the caller's context.
RangesInit ==
    /\ vr_rules = <<>>
    /\ vr_stop_on_error \in BOOLEAN
    /\ vr_context \in RangeContexts
    /\ vr_given = [context |-> vr_context, rules |-> <<>>, stop_on_error |-> vr_stop_on_error]
    /\ vr_idx = 1
    /\ vr_results = <<>>
    /\ vr_runs = <<>>
    /\ vr_pc = "loading"

\* _load_rules, one iteration, on an enabled check_value_ranges entry.
LoadRangeRule ==
    /\ vr_pc = "loading"
    /\ Len(vr_rules) < MaxRules
    /\ \E rule_config \in RangeRuleConfigs :
         LET rule == [name |-> rule_config.rule, severity |-> rule_config.severity,
                      ranges |-> rule_config.ranges]
         IN  /\ vr_rules' = Append(vr_rules, rule)
             /\ vr_given' = [vr_given EXCEPT !.rules = Append(@, rule)]
    /\ UNCHANGED <<vr_stop_on_error, vr_context, vr_idx, vr_results, vr_runs, vr_pc>>
    /\ UNCHANGED nonRangeVars

\* __init__ returns.
LoadRangeRulesDone ==
    /\ vr_pc = "loading"
    /\ vr_pc' = "ready"
    /\ UNCHANGED <<vr_rules, vr_stop_on_error, vr_context, vr_given, vr_idx, vr_results,
                   vr_runs>>
    /\ UNCHANGED nonRangeVars

\* run_pre_processing(context) of an enabled engine, up to the loop of _run_rules.
RunRangeRules ==
    /\ vr_pc = "ready"
    /\ Len(vr_runs) < MaxRuns
    /\ vr_idx' = 1
    /\ vr_results' = <<>>
    /\ IF vr_rules = <<>>
       THEN vr_runs' = Append(vr_runs, <<>>) /\ vr_pc' = "ready"
       ELSE vr_runs' = vr_runs /\ vr_pc' = "running"
    /\ UNCHANGED <<vr_rules, vr_stop_on_error, vr_context, vr_given>>
    /\ UNCHANGED nonRangeVars

\* _run_rules: one iteration of its for loop.
RunRangeRule ==
    /\ vr_pc = "running"
    /\ LET rule   == vr_rules[vr_idx]
           out    == CheckValueRanges_run(rule, vr_context)
           stop   == StopAfter(out.result, vr_stop_on_error)
           rs     == Append(vr_results, out.result)
       IN  /\ vr_context' = out.context
           /\ vr_results' = rs
           /\ vr_idx' = vr_idx + 1
           /\ IF stop \/ vr_idx = Len(vr_rules)
              THEN vr_runs' = Append(vr_runs, rs) /\ vr_pc' = "ready"
              ELSE vr_runs' = vr_runs /\ vr_pc' = "running"
    /\ UNCHANGED <<vr_rules, vr_stop_on_error, vr_given>>
    /\ UNCHANGED nonRangeVars

(***************************************************************************)
(* clean_numeric_value (core.py) on scalars: a missing value, floats,      *)
(* ints, and texts of up to MaxLen characters with the texts of the tests. *)
(***************************************************************************)
DigitChars == <<"0", "1", "2", "3", "4", "5", "6", "7", "8", "9">>

\* The decimal digits of a natural number.
RECURSIVE DigitsOf(_)
DigitsOf(n) ==
    IF n < 10 THEN <<DigitChars[n + 1]>>
    ELSE Append(DigitsOf(n \div 10), DigitChars[(n % 10) + 1])

RECURSIVE StripZeros(_)
StripZeros(ds) ==
    IF ds # <<>> /\ ds[Len(ds)] = "0" THEN StripZeros(SubSeq(ds, 1, Len(ds) - 1)) ELSE ds

RECURSIVE Pad(_, _)
Pad(ds, width) == IF Len(ds) >= width THEN ds ELSE Pad(<<"0">> \o ds, width)

\* Python's str() of a float, which is its repr: the shortest decimal that
\* reads back, positional from 1e-04 on and with an exponent below it.  (A
\* float of 1e16 or more is also written with an exponent; no number of the
\* model is that large.)
str(x) ==
    IF x.nan THEN <<"n", "a", "n">>
    ELSE LET m    == IF x.v < 0 THEN 0 - x.v ELSE x.v
             sign == IF x.v < 0 THEN <<"-">> ELSE <<>>
         IN  IF m # 0 /\ m < Scale \div 10000
             THEN LET ds   == DigitsOf(m)
                      mant == StripZeros(ds)
                      e    == FracDigits - (Len(ds) - 1)
                  IN  sign \o <<mant[1]>>
                        \o (IF Len(mant) > 1 THEN <<".">> \o Tail(mant) ELSE <<>>)
                        \o <<"e", "-">> \o Pad(DigitsOf(e), 2)
             ELSE LET fds == StripZeros(Pad(DigitsOf(m % Scale), FracDigits))
                  IN  sign \o DigitsOf(m \div Scale) \o <<".">>
                        \o (IF fds = <<>> THEN <<"0">> ELSE fds)

TextChars == {"1", "2", ".", ",", "(", ")", "-", "$"}

TestTexts ==
    { <<"(", "1", ",", "2", "3", "4", ".", "5", "6", ")">>,
      <<"$", "1", ",", "2", "3", "4", ".", "5", "6">>,
      <<"(", "1", "2", "3", ".", "4", "5", ")">>,
      <<"a", "b", "c">>, <<"N", "/", "A">>, <<"#", "1", "2", "3">> }

Texts == UNION { [1..n -> TextChars] : n \in 0..MaxLen } \cup TestTexts

Floats ==
    { Num(v) : v \in {0, 1, 0 - 1, Scale \div 10000, Scale, 0 - Scale,
                      12345 * (Scale \div 100)} }

Ints == {0, 123, 0 - 123, MaxFloat, MaxFloat + 1, 0 - (MaxFloat + 1)}

Scalars ==
    {FloatCell(NaN)} \cup { FloatCell(x) : x \in Floats }
        \cup { IntCell(n) : n \in Ints } \cup { StrCell(t) : t \in Texts }

NoOutcome == [raised |-> FALSE, exc |-> NoException, result |-> NaN]

CleanIdle ==
    /\ cn_value = FloatCell(NaN)
    /\ cn_out = NoOutcome
    /\ cn_str_out = NoOutcome
    /\ cn_again = NoOutcome
    /\ cn_pc = "none"

CleanInit ==
    /\ cn_value \in Scalars
    /\ cn_out = NoOutcome
    /\ cn_str_out = NoOutcome
    /\ cn_again = NoOutcome
    /\ cn_pc = "call"

\* clean_numeric_value(value)
CallClean ==
    /\ cn_pc = "call"
    /\ cn_out' = clean_numeric_value_call(cn_value)
    /\ cn_pc' = IF cn_out'.raised THEN "raised" ELSE "returned"
    /\ UNCHANGED <<cn_value, cn_str_out, cn_again>>
    /\ UNCHANGED nonCleanVars

\* clean_numeric_value(str(x)) on the float x the first call returned.
CallCleanOnStr ==
    /\ cn_pc = "returned"
    /\ cn_str_out' = clean_numeric_value_call(StrCell(str(cn_out.result)))
    /\ cn_pc' = "restrung"
    /\ UNCHANGED <<cn_value, cn_out, cn_again>>
    /\ UNCHANGED nonCleanVars

\* clean_numeric_value(x) on the float x the first call returned.
CallCleanAgain ==
    /\ cn_pc = "restrung"
    /\ cn_again' = clean_numeric_value_call(FloatCell(cn_out.result))
    /\ cn_pc' = "done"
    /\ UNCHANGED <<cn_value, cn_out, cn_str_out>>
    /\ UNCHANGED nonCleanVars

(***************************************************************************)
(* One call of a function.  Ratios are exact fractions num/den, den > 0.   *)
(***************************************************************************)
CallIdle ==
    /\ call_args = <<>>
    /\ call_out = <<>>
    /\ call_pc = "none"

Ratio(a, b) == [num |-> a, den |-> b]

RLess(x, y) == x.num * y.den < y.num * x.den

RLeq(x, y) == x.num * y.den <= y.num * x.den

(***************************************************************************)
(* quality_rules.py: CheckNullValues on the cells of a frame.              *)
(***************************************************************************)
NullFrames ==
    { [columns |-> <<"ID", "Jan", "Feb">>, rows |-> df] :
        df \in UNION { { d \in SourceFrames(n, ValueColumns) : \A i \in 1..n : d[i].ID = 101 } :
                       n \in 0..MaxRows } }

\* params: "columns" absent means "all", "threshold" absent means 0.05.
NullParams ==
    { c @@ t : c \in Optional("columns", {<<"Jan">>, <<"Jan", "Feb">>, <<"Mar", "Feb">>}),
               t \in Optional("threshold", {Ratio(0, 1), Ratio(1, 2), Ratio(1, 1)}) }

\* df[col].isna() on one row
IsNa(row, col) == col # "ID" /\ row.cells[col].kind = "float" /\ row.cells[col].f.nan

\* A slip in the comparison: a ratio equal to the threshold fails too.
NullRatioExceeds_Inclusive(null_ratio, threshold) == RLeq(threshold, null_ratio)

\* line 48: null_ratio > threshold
NullRatioExceeds(null_ratio, threshold) == RLess(threshold, null_ratio)

\* lines 34-55: the loop over the columns, building issues.
CheckNullValues_issues(df, params) ==
    LET columns   == IF "columns" \in DOMAIN params THEN params["columns"] ELSE df.columns
        threshold == Get(params, "threshold", Ratio(1, 20))
        n         == Len(df.rows)
        null_count(col) == Cardinality({ i \in 1..n : IsNa(df.rows[i], col) })
        null_ratio(col) == IF n > 0 THEN Ratio(null_count(col), n) ELSE Ratio(0, 1)
        RECURSIVE walk(_)
        walk(k) ==
            IF k > Len(columns) THEN <<>>
            ELSE IF columns[k] \notin Range(df.columns) THEN walk(k + 1)
            ELSE IF NullRatioExceeds(null_ratio(columns[k]), threshold)
                 THEN <<[column |-> columns[k], null_count |-> null_count(columns[k]),
                         null_ratio |-> null_ratio(columns[k])]>> \o walk(k + 1)
                 ELSE walk(k + 1)
    IN  walk(1)

\* CheckNullValues.validate: verdict, severity, message and details.issues.
CheckNullValues_result(rule, df) ==
    LET issues == CheckNullValues_issues(df, rule.params)
    IN  IF issues # <<>>
        THEN [rule_name |-> "check_null_values", severity |-> rule.severity, passed |-> FALSE,
              message |-> <<"message_template", issues[1].column>>, issues |-> issues]
        ELSE [rule_name |-> "check_null_values", severity |-> rule.severity, passed |-> TRUE,
              message |-> <<"No excessive NULL values detected">>, issues |-> <<>>]

NullInit ==
    /\ call_args \in { [rule |-> [severity |-> "warning", params |-> ps], df |-> df] :
                         ps \in NullParams, df \in NullFrames }
    /\ call_out = <<>>
    /\ call_pc = "call"

CallCheckNullValues ==
    /\ call_pc = "call"
    /\ call_out' = CheckNullValues_result(call_args.rule, call_args.df)
    /\ call_pc' = "returned"
    /\ UNCHANGED call_args
    /\ UNCHANGED nonCallVars

(***************************************************************************)
(* quality_rules.py: CheckRowCount, which reads the lengths of the frames  *)
(* and of value_vars only.                                                 *)
(***************************************************************************)
RowCountParams ==
    { lo @@ hi : lo \in Optional("min_ratio", {Ratio(1, 2), Ratio(1, 1)}),
                 hi \in Optional("max_ratio", {Ratio(1, 1), Ratio(2, 1)}) }

\* A frame of which only len() is read, and None for a frame not given.
FrameOfLen(n) == [none |-> FALSE, len |-> n]

NoneFrame == [none |-> TRUE, len |-> 0]

RowCountContexts ==
    { [df_source |-> s, df_processed |-> p, value_vars |-> v] :
        s \in { FrameOfLen(n) : n \in 0..MaxSourceRows } \cup {NoneFrame},
        p \in { FrameOfLen(n) : n \in 0..(2 * MaxSourceRows + 1) } \cup {NoneFrame},
        v \in 0..Len(ValueColumns) }

\* A slip in the window: its ends are not part of it.
InWindow_Exclusive(ratio, min_ratio, max_ratio) ==
    RLess(min_ratio, ratio) /\ RLess(ratio, max_ratio)

\* line 393: min_ratio <= ratio <= max_ratio
InWindow(ratio, min_ratio, max_ratio) ==
    RLeq(min_ratio, ratio) /\ RLeq(ratio, max_ratio)

\* CheckRowCount.validate
CheckRowCount_result(rule, ctx) ==
    IF ctx.df_source.none \/ ctx.df_processed.none
    THEN [rule_name |-> "check_row_count", severity |-> "warning", passed |-> TRUE,
          message |-> <<"Skipped (missing context)">>, details |-> EmptyDict]
    ELSE LET expected_rows == ctx.df_source.len * ctx.value_vars
             actual_rows   == ctx.df_processed.len
             ratio         == IF expected_rows > 0 THEN Ratio(actual_rows, expected_rows)
                              ELSE Ratio(0, 1)
             min_ratio     == Get(rule.params, "min_ratio", Ratio(9, 10))
             max_ratio     == Get(rule.params, "max_ratio", Ratio(11, 10))
             details       == [expected |-> expected_rows, actual |-> actual_rows,
                               ratio |-> ratio]
         IN  IF ~InWindow(ratio, min_ratio, max_ratio)
             THEN [rule_name |-> "check_row_count", severity |-> rule.severity,
                   passed |-> FALSE,
                   message |-> <<"message_template", expected_rows, actual_rows>>,
                   details |-> details]
             ELSE [rule_name |-> "check_row_count", severity |-> rule.severity,
                   passed |-> TRUE, message |-> <<"Row count valid", actual_rows>>,
                   details |-> details]

RowCountInit ==
    /\ call_args \in { [rule |-> [severity |-> "error", params |-> ps], context |-> ctx] :
                         ps \in RowCountParams, ctx \in RowCountContexts }
    /\ call_out = <<>>
    /\ call_pc = "call"

CallCheckRowCount ==
    /\ call_pc = "call"
    /\ call_out' = CheckRowCount_result(call_args.rule, call_args.context)
    /\ call_pc' = "returned"
    /\ UNCHANGED call_args
    /\ UNCHANGED nonCallVars

(***************************************************************************)
(* template_validators.py: the two checks of column order, each called on  *)
(* an observed list of columns, which may hold other columns and, in a     *)
(* header row, the same text twice.                                        *)
(***************************************************************************)
ObservedColumns ==
    UNION { [1..n -> ColumnNames \cup {"Notes"}] : n \in 0..MaxColumns }

OrderChecks ==
    { [mode |-> "column_order",
       check |-> ("check" :> "column_order")
                   @@ ("params" :> (("expected_order" :> e) @@ x)) @@ sv] :
        e \in Lists(ColumnNames), x \in Optional("strict", BOOLEAN),
        sv \in Optional("severity", {"error", "warning"}) }
    \cup
    { [mode |-> "header_row",
       check |-> ("check" :> "header_row")
                   @@ ("params" :> (("expected_columns" :> e) @@ ("exact_order" :> TRUE) @@ a))
                   @@ sv] :
        e \in Lists(ColumnNames), a \in Optional("allow_extra_columns", BOOLEAN),
        sv \in Optional("severity", {"error", "warning"}) }

OrderInit ==
    /\ call_args \in { [mode |-> oc.mode, check |-> oc.check, observed |-> obs] :
                         oc \in OrderChecks, obs \in ObservedColumns }
    /\ call_out = <<>>
    /\ call_pc = "call"

\* _check_column_order(df, ...) on a frame of the observed columns, or
\* _check_header_row(ws, ...) on a sheet whose header row holds them.
CallOrderCheck ==
    /\ call_pc = "call"
    /\ call_out' = IF call_args.mode = "column_order"
                   THEN check_column_order([columns |-> call_args.observed], call_args.check)
                   ELSE check_header_row([header |-> call_args.observed], call_args.check)
    /\ call_pc' = "returned"
    /\ UNCHANGED call_args
    /\ UNCHANGED nonCallVars

(***************************************************************************)
(* utils.py: extract_release_date on a filename, a sequence of characters. *)
(***************************************************************************)
\* re.search of \d{4} sep \d{2} with sep one of seps, or no separator when
\* seps is empty: the start of the leftmost match, 0 when there is none.
SearchDate(filename, seps) ==
    LET width == IF seps = {} THEN 6 ELSE 7
        digit(i) == filename[i] \in Digits
        at(i) == /\ i + width - 1 <= Len(filename)
                 /\ \A j \in i..(i + 3) : digit(j)
                 /\ (seps # {} => filename[i + 4] \in seps)
                 /\ digit(i + width - 2) /\ digit(i + width - 1)
        starts == { i \in 1..Len(filename) : at(i) }
    IN  IF starts = {} THEN 0 ELSE CHOOSE i \in starts : \A j \in starts : i <= j

NoDate == [found |-> FALSE, text |-> <<>>]

\* extract_release_date: the separated pattern first, returned as matched;
\* then six digits in a row, returned when the month is 01..12.
extract_release_date(filename) ==
    LET m1 == SearchDate(filename, {"_", "-"})
        m2 == SearchDate(filename, {})
    IN  IF m1 # 0
        THEN [found |-> TRUE,
              text  |-> SubSeq(filename, m1, m1 + 3) \o <<"-">>
                          \o SubSeq(filename, m1 + 5, m1 + 6)]
        ELSE IF m2 # 0
        THEN LET month == SubSeq(filename, m2 + 4, m2 + 5)
             IN  IF 1 <= IntegerPart(month) /\ IntegerPart(month) <= 12
                 THEN [found |-> TRUE,
                       text  |-> SubSeq(filename, m2, m2 + 3) \o <<"-">> \o month]
                 ELSE NoDate
        ELSE NoDate

Filenames ==
    { before \o <<"2", "0", "2", "5">> \o sep \o <<m1, m2>> \o after :
        before \in {<<>>, <<"x">>, <<"9">>},
        sep \in {<<>>, <<"_">>, <<"-">>, <<"x">>},
        m1 \in {"0", "1", "9", "x"}, m2 \in {"0", "1", "2", "3", "x"},
        after \in {<<>>, <<"_">>, <<"7">>} }

ReleaseInit ==
    /\ call_args \in { [filename |-> f] : f \in Filenames }
    /\ call_out = <<>>
    /\ call_pc = "call"

CallExtractReleaseDate ==
    /\ call_pc = "call"
    /\ call_out' = extract_release_date(call_args.filename)
    /\ call_pc' = "returned"
    /\ UNCHANGED call_args
    /\ UNCHANGED nonCallVars

(***************************************************************************)
(* template_validators.py: one validate_* call made on two validators that *)
(* differ in settings.stop_on_error only, check by check.                  *)
(***************************************************************************)
\* A call of validate_* up to its loop, as CallValidate: the validator's
\* settings are not read.
StartOfValidate(tv_stop_on_error, en, ph, subj) ==
    IF IsNoOp(en) THEN [pc |-> "returned", log |-> <<>>]
    ELSE IF ph # "frame" /\ ~subj.openable THEN [pc |-> "raised", log |-> <<>>]
    ELSE IF ph = "sheet" /\ ~subj.present THEN [pc |-> "returned", log |-> <<>>]
    ELSE [pc |-> "checking", log |-> <<>>]

\* A slip in the loop: with stop_on_error false a raising check is noted and
\* the loop goes on.
StepOfValidate_Collects(tv_stop_on_error, ph, subj, run, check) ==
    IF run.pc # "checking" \/ ~Get(check, "enabled", TRUE) THEN run
    ELSE LET did == RunCheck(ph, subj, check)
         IN  [pc  |-> IF did.raised /\ tv_stop_on_error THEN "raised" ELSE "checking",
              log |-> Append(run.log, [check |-> check["check"], raised |-> did.raised,
                                       warned |-> did.warned])]

\* One iteration of the loop of validate_*, as TakeCheck: a raising check
\* ends the call whatever self.stop_on_error is (it is assigned at line 45
\* and read nowhere).
StepOfValidate(tv_stop_on_error, ph, subj, run, check) ==
    IF run.pc # "checking" \/ ~Get(check, "enabled", TRUE) THEN run
    ELSE LET did == RunCheck(ph, subj, check)
         IN  [pc  |-> IF did.raised THEN "raised" ELSE "checking",
              log |-> Append(run.log, [check |-> check["check"], raised |-> did.raised,
                                       warned |-> did.warned])]

\* The two validators are built and the same validate_* is called on each.
StopInit ==
    /\ \E ph \in {"file", "sheet", "frame"}, en \in BOOLEAN :
         \E subj \in Subjects(ph) :
           /\ call_args = [phase |-> ph, subject |-> subj, enabled |-> en]
           /\ call_out = [on  |-> StartOfValidate(TRUE, en, ph, subj),
                          off |-> StartOfValidate(FALSE, en, ph, subj),
                          n   |-> 0]
    /\ call_pc = "call"

\* The next configured check, the same in both configurations.
TakeCheckBoth ==
    /\ call_pc = "call"
    /\ call_out.n < MaxChecks
    /\ \E check \in Checks(call_args.phase) :
         call_out' = [on  |-> StepOfValidate(TRUE, call_args.phase, call_args.subject,
                                             call_out.on, check),
                      off |-> StepOfValidate(FALSE, call_args.phase, call_args.subject,
                                             call_out.off, check),
                      n   |-> call_out.n + 1]
    /\ UNCHANGED <<call_args, call_pc>>
    /\ UNCHANGED nonCallVars

\* The lists of checks are exhausted: a call still in its loop returns.
ReturnBoth ==
    /\ call_pc = "call"
    /\ LET Ended(run) == [run EXCEPT !.pc = IF @ = "checking" THEN "returned" ELSE @]
       IN  call_out' = [call_out EXCEPT !.on = Ended(@), !.off = Ended(@)]
    /\ call_pc' = "returned"
    /\ UNCHANGED call_args
    /\ UNCHANGED nonCallVars

(***************************************************************************)
(* core.py: resolve_columns, called in successive runs of the program on   *)
(* the same frame and options.  Its candidates are held in a Python set of *)
(* str, whose iteration order is fixed by the hash seed of the run.        *)
(***************************************************************************)
FrameColumns == {"ID", "Jan", "Feb"}

\* The orders in which iterating a set may yield its elements.
IterationOrders(S) ==
    { f \in [1..Cardinality(S) -> S] : \A i, j \in 1..Cardinality(S) : i # j => f[i] # f[j] }

\* The options of a call; value_vars, include_cols, exclude_cols absent are None.
ResolveOptions ==
    { ("id_vars" :> ids) @@ v @@ inc @@ exc :
        ids \in {<<>>, <<"ID">>, <<"Jan">>},
        v   \in Optional("value_vars", {<<"Jan", "Feb">>, <<"Feb", "ID">>}),
        inc \in Optional("include_cols", {<<"ID", "Feb">>}),
        exc \in Optional("exclude_cols", {<<"Feb">>}) }

\* lines 194-205: available_cols
available_cols(columns, options) ==
    LET included == IF "include_cols" \in DOMAIN options
                    THEN Range(columns) \cap Range(options["include_cols"])
                    ELSE Range(columns)
    IN  IF "exclude_cols" \in DOMAIN options
        THEN included \ Range(options["exclude_cols"])
        ELSE included

ColumnErrorOutcome == [raised |-> TRUE, id_vars |-> <<>>, value_vars |-> <<>>]

\* resolve_columns, with validate_id_value_vars (validators.py); iteration is
\* the order in which available_cols yields its elements in this run.
resolve_columns(columns, options, iteration) ==
    LET available == available_cols(columns, options)
        ids       == options["id_vars"]
        final     == IF "value_vars" \notin DOMAIN options
                     THEN SelectSeq(iteration, LAMBDA c : c \notin Range(ids))
                     ELSE SelectSeq(options["value_vars"], LAMBDA c : c \in available)
    IN  IF final = <<>> \/ Range(ids) \cap Range(final) # {} THEN ColumnErrorOutcome
        ELSE [raised |-> FALSE, id_vars |-> ids, value_vars |-> final]

ResolveInit ==
    /\ call_args \in { [columns |-> cols, options |-> o] :
                         cols \in Lists(FrameColumns), o \in ResolveOptions }
    /\ call_out = <<>>
    /\ call_pc = "call"

\* One run of the program calls resolve_columns on the frame.
CallResolveColumns ==
    /\ call_pc = "call"
    /\ \E iteration \in IterationOrders(available_cols(call_args.columns, call_args.options)) :
         call_out' = Append(call_out,
                            resolve_columns(call_args.columns, call_args.options, iteration))
    /\ call_pc' = IF Len(call_out) + 1 = MaxRuns THEN "returned" ELSE "call"
    /\ UNCHANGED call_args
    /\ UNCHANGED nonCallVars

(***************************************************************************)
(* Spec: an engine configured with up to MaxRules entries naming the rules *)
(* of ListRuleNames, run on every context.                                 *)
(***************************************************************************)
Init == EngineInit /\ ReportIdle /\ TemplateIdle /\ FileIdle /\ RangesIdle /\ CleanIdle /\ CallIdle

LoadListEntry == LoadEntry(ListRuleNames, MaxRules)

Next ==
    \/ LoadListEntry
    \/ LoadDone
    \/ RunPreProcessing
    \/ RunPostProcessing
    \/ RunRule
    \/ CheckForErrors
    \/ Discard

Spec == Init /\ [][Next]_vars

(***************************************************************************)
(* SpecRule: an engine configured with one entry, naming any rule of the   *)
(* registry, run on every context.                                         *)
(***************************************************************************)
LoadRuleEntry == LoadEntry(RuleNames, 1)

NextRule ==
    \/ LoadRuleEntry
    \/ LoadDone
    \/ RunPreProcessingAny
    \/ RunPostProcessingAny
    \/ RunRule
    \/ CheckForErrors
    \/ Discard

SpecRule == Init /\ [][NextRule]_vars

(***************************************************************************)
(* SpecLoad: as Spec, the configuration lists being remembered.            *)
(***************************************************************************)
NextLoad ==
    \/ LoadConfigEntry
    \/ LoadDone
    \/ RunPreProcessing
    \/ RunPostProcessing
    \/ RunRule
    \/ CheckForErrors
    \/ Discard

SpecLoad == Init /\ [][NextLoad]_vars

(***************************************************************************)
(* SpecReport: create_validation_report on workbooks of up to MaxSheets    *)
(* sheets and MaxRows source rows.                                         *)
(***************************************************************************)
InitReport == EngineIdle /\ ReportInit /\ TemplateIdle /\ FileIdle /\ RangesIdle /\ CleanIdle /\ CallIdle

NextReport ==
    \/ NextSheet
    \/ ReportRow
    \/ ReportSheetTotal
    \/ ReportGrandTotal

SpecReport == InitReport /\ [][NextReport]_vars

(***************************************************************************)
(* SpecTemplate: a template validator called on workbooks, sheets and      *)
(* frames, each phase configured with up to MaxChecks checks.              *)
(***************************************************************************)
InitTemplate == EngineIdle /\ ReportIdle /\ TemplateInit /\ FileIdle /\ RangesIdle /\ CleanIdle /\ CallIdle

NextTemplate ==
    \/ ValidateFileStructure
    \/ ValidateSheetTemplate
    \/ ValidateDataframeTemplate
    \/ TakeCheck
    \/ ChecksDone
    \/ CallOver

SpecTemplate == InitTemplate /\ [][NextTemplate]_vars

(***************************************************************************)
(* SpecFile: depivot_file on workbooks of up to MaxSheets sheets, under    *)
(* every combination of its options.                                       *)
(***************************************************************************)
InitFile == EngineIdle /\ ReportIdle /\ TemplateIdle /\ FileInit /\ RangesIdle /\ CleanIdle /\ CallIdle

NextFile ==
    \/ FileStructure
    \/ SheetTemplate
    \/ ReadSheet
    \/ FrameTemplate
    \/ PreRules
    \/ Reshape
    \/ Normalize
    \/ PostRules
    \/ Report
    \/ Upload
    \/ Write

SpecFile == InitFile /\ [][NextFile]_vars

(***************************************************************************)
(* SpecRanges: an engine of check_value_ranges rules run MaxRuns times on  *)
(* one context.                                                            *)
(***************************************************************************)
InitRanges == EngineIdle /\ ReportIdle /\ TemplateIdle /\ FileIdle /\ RangesInit /\ CleanIdle /\ CallIdle

NextRanges ==
    \/ LoadRangeRule
    \/ LoadRangeRulesDone
    \/ RunRangeRules
    \/ RunRangeRule

SpecRanges == InitRanges /\ [][NextRanges]_vars

(***************************************************************************)
(* SpecClean: clean_numeric_value on every scalar of Scalars, then on the  *)
(* str() of its result and on its result.                                  *)
(***************************************************************************)
InitClean ==
    EngineIdle /\ ReportIdle /\ TemplateIdle /\ FileIdle /\ RangesIdle /\ CleanInit /\ CallIdle

NextClean ==
    \/ CallClean
    \/ CallCleanOnStr
    \/ CallCleanAgain

SpecClean == InitClean /\ [][NextClean]_vars

(***************************************************************************)
(* SpecNullValues, SpecRowCount: one rule evaluated on one context.        *)
(***************************************************************************)
Others ==
    EngineIdle /\ ReportIdle /\ TemplateIdle /\ FileIdle /\ RangesIdle /\ CleanIdle

InitNullValues == Others /\ NullInit

NextNullValues == CallCheckNullValues

SpecNullValues == InitNullValues /\ [][NextNullValues]_vars

InitRowCount == Others /\ RowCountInit

NextRowCount == CallCheckRowCount

SpecRowCount == InitRowCount /\ [][NextRowCount]_vars

(***************************************************************************)
(* SpecOrder: one check of column order on one list of columns.            *)
(***************************************************************************)
InitOrder == Others /\ OrderInit

NextOrder == CallOrderCheck

SpecOrder == InitOrder /\ [][NextOrder]_vars

(***************************************************************************)
(* SpecRelease: extract_release_date on one filename.                      *)
(***************************************************************************)
InitRelease == Others /\ ReleaseInit

NextRelease == CallExtractReleaseDate

SpecRelease == InitRelease /\ [][NextRelease]_vars

(***************************************************************************)
(* SpecStop: a validate_* call under stop_on_error true and false.         *)
(***************************************************************************)
InitStop == Others /\ StopInit

NextStop ==
    \/ TakeCheckBoth
    \/ ReturnBoth

SpecStop == InitStop /\ [][NextStop]_vars

(***************************************************************************)
(* SpecResolve: resolve_columns in MaxRuns runs on one frame.              *)
(***************************************************************************)
InitResolve == Others /\ ResolveInit

NextResolve == CallResolveColumns

SpecResolve == InitResolve /\ [][NextResolve]_vars

(***************************************************************************)
(* Properties of the engine.                                               *)
(***************************************************************************)
Running == pc \in {"running", "returned", "checked"}

Finished == pc \in {"returned", "checked"}

\* What rule i of the running phase did on the context.
OutcomeOf(i) == Validate(RulesOf(phase)[i], context, context.facts[i])

\* C1: a run evaluates the rules in configured order and returns one result
\* per evaluated rule, in that order; with stop_on_error the returned list ends
\* at, and includes, the first error-severity failure and no later rule is
\* evaluated; without it every rule of the phase is evaluated and has exactly
\* one result.
C1_OrderAndTruncation ==
    LET rules == RulesOf(phase)
        n     == Len(results)
    IN  Running =>
          /\ evaluated = [i \in 1..n |-> i]
          /\ n <= Len(rules)
          /\ \A i \in 1..n : results[i].rule_name \in {rules[i].name, rules[i].class}
          /\ (Finished /\ enabled) =>
                IF stop_on_error
                THEN /\ \A i \in 1..(n - 1) : ~IsError(results[i])
                     /\ n = Len(rules) \/ (n > 0 /\ IsError(results[n]))
                ELSE n = Len(rules)

\* C1's case: a run under stop_on_error that ended at its first rule's
\* error-severity failure, leaving the second rule unevaluated.
C1_Witness ==
    /\ pc = "returned" /\ enabled /\ stop_on_error
    /\ Len(RulesOf(phase)) = 2
    /\ evaluated = <<1>>
    /\ IsError(results[1])

\* C2: when a rule's validate raises, the run records in that rule's position
\* one result with severity error, passed = false and a message that carries
\* the exception text; the run then stops if stop_on_error is set and goes on
\* to the next rule otherwise (and the run returns to its caller).
C2_RuleFaultRecorded ==
    Running =>
      \A i \in 1..Len(results) :
        OutcomeOf(i).raised =>
          /\ results[i].severity = "error"
          /\ ~results[i].passed
          /\ results[i].message = <<"Rule execution failed: ", OutcomeOf(i).exc>>
          /\ results[i].rule_name = RulesOf(phase)[i].class
          /\ Finished =>
               IF stop_on_error THEN Len(results) = i
               ELSE Len(results) = Len(RulesOf(phase))

\* C2's case: the first of two rules raised, stop_on_error is off and the run
\* went on to the second rule and returned.
C2_Witness ==
    /\ pc = "returned" /\ ~stop_on_error
    /\ Len(results) = 2
    /\ OutcomeOf(1).raised

\* C3: check_for_errors raises DataQualityError exactly when the results hold
\* an error-severity failure; the message gives the number of such results and
\* the rule name and message of each of them, in order.
C3_CheckForErrors ==
    pc = "checked" =>
      LET bad == { i \in 1..Len(results) : IsError(results[i]) }
      IN  /\ (raised.type = "DataQualityError") <=> (bad # {})
          /\ raised.count = Cardinality(bad)
          /\ Len(raised.lines) = Cardinality(bad)
          /\ \A i \in bad :
                \E k \in 1..Len(raised.lines) :
                    raised.lines[k] = <<results[i].rule_name, results[i].message>>

\* C3's case: check_for_errors raised for a result list with two error-severity
\* failures.
C3_Witness ==
    /\ pc = "checked"
    /\ raised.type = "DataQualityError"
    /\ raised.count = 2

(***************************************************************************)
(* Properties of the rules, as an engine runs them.                        *)
(***************************************************************************)
\* A frame rule i of the running phase reads is absent from the context.
FrameMissing(i) == \E f \in FramesRead(RulesOf(phase)[i].name) : ~context[f]

MarkedSkipped(result) ==
    result.message # <<>> /\
    result.message[1] \in {"Skipped (missing context)",
                           "Skipped (no dimensions or expected_values configured)",
                           "Skipped (missing columns)"}

\* C7: every registered rule, run on a context that lacks a frame the rule
\* reads, returns a passing result whose message marks it as skipped, and does
\* not raise.
C7_MissingFrameSkipped ==
    Running =>
      \A i \in 1..Len(results) :
        FrameMissing(i) =>
          /\ ~OutcomeOf(i).raised
          /\ results[i].passed
          /\ MarkedSkipped(results[i])

ConfiguredLenient(rule) == rule.severity \in {"warning", "info"}

\* C8 as claimed: a rule configured with severity warning or info never yields
\* an error-severity failure from an engine run (so it never truncates a phase
\* and never makes check_for_errors raise).
C8_LenientRuleNeverHalts ==
    /\ Running =>
         \A i \in 1..Len(results) :
           ConfiguredLenient(RulesOf(phase)[i]) => ~IsError(results[i])
    /\ (pc = "checked" /\ \A i \in 1..Len(results) : ConfiguredLenient(RulesOf(phase)[i]))
         => raised = NoError

\* The value column check_numeric_conversion is configured with is not in the
\* processed frame.
ValueColumnNotFound(i) ==
    /\ RulesOf(phase)[i].name = "check_numeric_conversion"
    /\ context.df_processed
    /\ context.facts[i] = "missing_column"

\* C8, amended: for a rule configured with severity warning or info, an engine
\* run yields an error-severity failure only when the rule's validate raised or
\* when the rule is check_numeric_conversion and its value column is not in the
\* processed frame; in every other case its result does not halt anything.
C8_LenientRuleHaltsOnlyOnFault ==
    /\ Running =>
         \A i \in 1..Len(results) :
           (ConfiguredLenient(RulesOf(phase)[i]) /\ IsError(results[i]))
              => (OutcomeOf(i).raised \/ ValueColumnNotFound(i))
    /\ (/\ pc = "checked"
        /\ \A i \in 1..Len(results) :
              /\ ConfiguredLenient(RulesOf(phase)[i])
              /\ ~OutcomeOf(i).raised
              /\ ~ValueColumnNotFound(i))
         => raised = NoError

\* C8's case: a rule configured with severity warning whose result, returned
\* by validate itself, is an error-severity failure that makes check_for_errors
\* raise.
C8_Witness ==
    /\ pc = "checked"
    /\ Len(results) = 1
    /\ RulesOf(phase)[1].severity = "warning"
    /\ ~OutcomeOf(1).raised
    /\ IsError(results[1])
    /\ raised.type = "DataQualityError"

\* C9: every result of an engine run has a severity in {error, warning, info},
\* whatever the rule configuration the engine accepted.
C9_SeverityDomain ==
    \A i \in 1..Len(results) : results[i].severity \in {"error", "warning", "info"}

(***************************************************************************)
(* Properties of the reconciliation report.                                *)
(***************************************************************************)
Rows == { validation_rows[i] : i \in 1..Len(validation_rows) }

IsGrandTotal(row) == Get(row, "Category", None) = "GRAND_TOTAL"

IsGroupRow(row) == Get(row, "Category", None) = None

\* C4: in every row of the report, per-group, SHEET_TOTAL and GRAND_TOTAL,
\* Difference is Processed_Total - Source_Total and Match is "OK" exactly when
\* |Difference| < 0.01, "MISMATCH" otherwise.  (A NaN total gives a NaN
\* Difference, which is not below 0.01.)
C4_DifferenceAndMatch ==
    \A row \in Rows :
       /\ row.Difference = FSub(row.Processed_Total, row.Source_Total)
       /\ row.Match \in {"OK", "MISMATCH"}
       /\ row.Match = "OK" <=> FLess(FAbs(row.Difference), Num(Tolerance))

\* A finished report with a row whose difference is small but not zero, a row
\* whose difference is exactly 0.01, and a row whose difference is NaN.
C4_Witness ==
    /\ rpc = "done"
    /\ \E row \in Rows : row.Match = "OK" /\ row.Difference # Num(0)
    /\ \E row \in Rows : IsSheetTotal(row) /\ row.Match = "MISMATCH"
                           /\ FAbs(row.Difference) = Num(Tolerance)
    /\ \E row \in Rows : IsGroupRow(row) /\ row.Difference.nan

SheetTotalsOf(k) ==
    { i \in 1..Len(validation_rows) :
        IsSheetTotal(validation_rows[i]) /\ validation_rows[i].Sheet = k }

C6_ExactReshapeAllOK ==
    \A row \in Rows :
       IF row.Sheet = ALL_SHEETS
       THEN (\A k \in 1..n_sheets : exact_sheets[k]) => row.Match = "OK"
       ELSE exact_sheets[row.Sheet] => row.Match = "OK"

\* C10: check_totals_match at its default tolerance passes on a sheet's
\* frames exactly when the SHEET_TOTAL row of that sheet has Match "OK".
C10_TotalsRuleParity ==
    \A row \in Rows :
       IsSheetTotal(row) => (totals_rule[row.Sheet] <=> row.Match = "OK")

(***************************************************************************)
(* Properties of engine construction and of the enable flag.               *)
(***************************************************************************)
\* C15: an engine built with enabled=false returns an empty list from both
\* run operations, whatever rules are configured, and evaluates no rule.
C15_DisabledEngineReturnsEmpty ==
    ~enabled => /\ pc # "running"
                /\ results = <<>>
                /\ evaluated = <<>>
                /\ raised = NoError

\* A disabled engine holding rules for the phase has been run and has returned.
C15_Witness ==
    /\ ~enabled
    /\ pc = "returned"
    /\ RulesOf(phase) # <<>>
    /\ results = <<>>

\* The entries of a configuration list that name a registered rule and are
\* not disabled.
IsLoadable(rule_config) ==
    /\ "rule" \in DOMAIN rule_config
    /\ rule_config["rule"] \in RuleNames
    /\ Get(rule_config, "enabled", TRUE)

LoadableOf(ph) == SelectSeq(rule_configs[ph], IsLoadable)

\* C16: once the engine is built, each phase's rule list is the phase's
\* configuration entries that name a registered rule and are not disabled, in
\* configuration order; no other entry is ever evaluated or reported.
C16_RuleListsFollowConfiguration ==
    pc # "loading" =>
       /\ \A ph \in {"pre", "post"} :
             /\ Len(RulesOf(ph)) = Len(LoadableOf(ph))
             /\ \A i \in 1..Len(RulesOf(ph)) :
                   /\ RulesOf(ph)[i].name = LoadableOf(ph)[i]["rule"]
                   /\ RulesOf(ph)[i].severity = Get(LoadableOf(ph)[i], "severity", "warning")
       /\ Len(results) <= Len(LoadableOf(phase))
       /\ \A i \in 1..Len(results) :
             LET rule_config == LoadableOf(phase)[evaluated[i]]
             IN  results[i].rule_name \in {rule_config["rule"], RULE_REGISTRY[rule_config["rule"]]}

\* A phase configured with two entries, one of them dropped, has been run.
C16_Witness ==
    /\ pc = "returned"
    /\ Len(rule_configs[phase]) = 2
    /\ Len(RulesOf(phase)) = 1
    /\ Len(results) = 1
    /\ \E i \in 1..2 : "enabled" \in DOMAIN rule_configs[phase][i]
                         /\ ~rule_configs[phase][i]["enabled"]

AlwaysFatal ==
    {"required_sheet_missing", "sheet_count_below_min", "header_column_missing",
     "header_order_mismatch", "frame_column_missing"}

\* C13: a check that finds a required sheet missing, a sheet count below
\* min_sheets, an expected header column missing, a header order mismatch
\* under exact_order or a required frame column missing raises TemplateError
\* whatever its severity; a check that finds only other violations raises
\* exactly when its severity is error, and otherwise warns of each and the
\* remaining checks of the phase run; a check that finds nothing does neither.
C13_FatalAndSeverityViolations ==
    /\ \A i \in 1..Len(tv_log) :
          LET e == tv_log[i]
          IN  /\ IF e.violations \cap AlwaysFatal # {} THEN e.raised
                 ELSE IF e.violations # {}
                      THEN /\ e.raised <=> e.error_severity
                           /\ ~e.raised => e.warned = e.violations
                      ELSE ~e.raised /\ e.warned = {}
              /\ e.raised => i = Len(tv_log) /\ tpc = "raised" /\ tv_raised = "TemplateError"
    /\ (tpc = "raised" /\ tv_log # <<>>) => tv_log[Len(tv_log)].raised

\* A phase whose first check only warned of a violation and whose second check
\* raised on a fatal one although configured as a warning.
C13_Witness ==
    /\ Len(tv_log) = 2
    /\ tv_log[1].violations # {}
    /\ tv_log[1].warned = tv_log[1].violations
    /\ tv_log[2].violations \cap AlwaysFatal # {}
    /\ ~tv_log[2].error_severity
    /\ tpc = "raised"

\* C14: a validator built with enabled=false returns from each validate_*
\* without raising, without opening the workbook and without evaluating a
\* check.
C14_DisabledValidatorNoOp ==
    ~tv_enabled => /\ tpc \in {"idle", "returned"}
                   /\ wb = "none"
                   /\ tv_log = <<>>
                   /\ n_checks = 0
                   /\ tv_raised = NoException

\* A disabled validator has returned from a call on a workbook that cannot be
\* opened.
C14_Witness ==
    /\ ~tv_enabled
    /\ tpc = "returned"
    /\ ~subject.openable

\* C18: when validate_file_structure or validate_sheet_template has returned
\* or raised, the workbook it opened is closed.
C18_WorkbookClosed ==
    tpc \in {"returned", "raised"} => wb # "open"

(***************************************************************************)
(* Properties of depivot_file.                                             *)
(***************************************************************************)
\* Does the step run under the options?
Applies(o, step) ==
    CASE step \in {"file_structure", "sheet_template", "frame_template"} -> o.template
      [] step \in {"pre_rules", "post_rules"} -> o.quality
      [] step = "report" -> ~o.no_validate
      [] step = "upload" -> o.sql_only \/ o.both
      [] step = "write"  -> ~o.sql_only
      [] OTHER -> TRUE

\* The steps of a whole run on n sheets, as pairs <<sheet, step>>.
CanonicalOrder(o, n) ==
    LET Running_(steps) == LET Runs(step) == Applies(o, step) IN SelectSeq(steps, Runs)
        head  == Running_(<<"file_structure">>)
        sheet_steps == Running_(<<"sheet_template", "read", "frame_template", "pre_rules",
                                  "reshape", "normalize", "post_rules">>)
        tail  == Running_(<<"report", "upload", "write">>)
        p     == Len(sheet_steps)
    IN  [i \in 1..Len(head) |-> <<ALL_SHEETS, head[i]>>]
          \o [i \in 1..(n * p) |-> <<((i - 1) \div p) + 1, sheet_steps[((i - 1) % p) + 1]>>]
          \o [i \in 1..Len(tail) |-> <<ALL_SHEETS, tail[i]>>]

Failed_(e) == ~e.ok

Steps(names) == { i \in 1..Len(trace) : trace[i].step \in names }

\* C11: when a template check raises, or a pre- or post-processing phase
\* yields an error-severity failure, nothing runs after it: not the later
\* steps of the sheet (the reshape after a failed pre-processing phase
\* included), not the remaining sheets, no report, no upload, no output file.
C11_FailureAbortsFile ==
    \A i \in 1..Len(trace) :
       LET e == trace[i]
       IN  /\ e.has_error => ~e.ok
           /\ (~e.ok /\ e.step \in {"file_structure", "sheet_template", "frame_template",
                                    "pre_rules", "post_rules"}) =>
                 /\ i = Len(trace)
                 /\ fpc = "raised"
                 /\ file_raised # NoException
                 /\ validation_df = <<>>
                 /\ Steps({"report", "upload", "write"}) = {}
                 /\ \A j \in 1..Len(trace) : trace[j].sheet <= e.sheet

\* The pre-processing phase of the first of two sheets gave an error-severity
\* failure and depivot_file has raised.
C11_Witness ==
    /\ n_file_sheets = 2
    /\ fpc = "raised"
    /\ trace # <<>>
    /\ trace[Len(trace)].step = "pre_rules"
    /\ trace[Len(trace)].has_error
    /\ trace[Len(trace)].sheet = 1

\* C12: the steps taken are, in this order and each after the one before
\* ended without raising: file-structure validation, then per sheet its
\* sheet-template validation, load, frame-template validation, pre-processing
\* rules, reshape, normalization and post-processing rules, and after the
\* last sheet the reconciliation report, the upload and the output file.
C12_StepOrder ==
    LET canon == CanonicalOrder(opts, n_file_sheets)
    IN  /\ Len(trace) <= Len(canon)
        /\ \A i \in 1..Len(trace) :
              /\ <<trace[i].sheet, trace[i].step>> = canon[i]
              /\ i < Len(trace) => trace[i].ok
        /\ fpc = "returned" => Len(trace) = Len(canon)

\* A run on two sheets with the template validator, the engine and the
\* report all at work has returned.
C12_Witness ==
    /\ fpc = "returned"
    /\ n_file_sheets = 2
    /\ opts.template /\ opts.quality /\ ~opts.no_validate /\ opts.both /\ ~opts.sql_only
    /\ Len(trace) = 18

\* C19: a report with MISMATCH rows is not an exception: the report step
\* never raises, the steps after it run, and a run that returns with the
\* Excel output asked for has written the output file.
C19_MismatchNotRaised ==
    /\ \A i \in Steps({"report"}) : trace[i].ok
    /\ (validation_df # <<>> /\ fpc = "raised") =>
          trace[Len(trace)].step \in {"upload", "write"}
    /\ (fpc = "returned" /\ excel_output(opts)) =>
          \E i \in Steps({"write"}) : trace[i].ok

\* A run whose report holds MISMATCH rows wrote the output file and returned.
C19_Witness ==
    /\ fpc = "returned"
    /\ Mismatches(validation_df) # <<>>
    /\ \E i \in Steps({"write"}) : trace[i].ok

NormalizedCellTotal(s) ==
    nansum([c \in 1..Len(s.value_vars) |->
              nansum([i \in 1..Len(s.df_source) |->
                        clean_numeric_value(s.df_source[i].cells[s.value_vars[c]])])])

\* C21: whenever a SHEET_TOTAL row is written, its Source_Total is the sum of
\* the normalized cells of the sheet's value columns over all source rows
\* (missing cells adding nothing) and its Processed_Total is the sum of the
\* sheet's whole post-transform value column, for numeric and for text cells.
C21_SheetTotalIsSumOfNormalizedCells ==
    [][rpc = "sheet_total" /\ rpc' = "sheets" =>
         LET row == validation_rows'[Len(validation_rows')]
         IN  /\ row.Source_Total = NormalizedCellTotal(sheet)
             /\ row.Processed_Total =
                  nansum([i \in 1..Len(sheet.df_processed) |-> sheet.df_processed[i].value])]_vars

\* What the text of a scalar comes to, said in one go: the characters other
\* than digits . , ( ) - are dropped, the commas go, the parentheses go and
\* the number is negated when both kinds are there, and what cannot be read
\* as a number is NaN.
TextValue(text) ==
    LET kept == SelectSeq(text, LAMBDA c : c \in Digits \cup {".", ",", "(", ")", "-"})
        both == "(" \in Range(kept) /\ ")" \in Range(kept)
    IN  IF both
        THEN FNeg(float(SelectSeq(kept, LAMBDA c : c \notin {",", "(", ")"})))
        ELSE float(SelectSeq(kept, LAMBDA c : c # ","))

\* What clean_numeric_value returns for the scalars it returns on.
C22_ValueOfScalar ==
    (cn_pc \in {"returned", "restrung", "done"}) =>
        /\ (cn_value.kind = "float" => cn_out.result = cn_value.f)
        /\ (cn_value.kind = "int" => cn_out.result = Num(cn_value.f.v * Scale))
        /\ (cn_value.kind = "str" => cn_out.result = TextValue(cn_value.text))
        /\ (cn_value.kind = "str" /\ Range(cn_value.text) \cap Digits = {}
               => cn_out.result = NaN)
        /\ (cn_value = StrCell(<<"(", "1", ",", "2", "3", "4", ".", "5", "6", ")">>)
               => cn_out.result = Num(0 - 123456 * (Scale \div 100)))
        /\ (cn_value = StrCell(<<"$", "1", ",", "2", "3", "4", ".", "5", "6">>)
               => cn_out.result = Num(123456 * (Scale \div 100)))

\* C22: clean_numeric_value never raises on a scalar: a missing input gives
\* NaN, an int or a float comes back as the same number, and a text gives the
\* number left after dropping the other characters, negated exactly when it
\* has both parentheses, or NaN; "(1,234.56)" gives -1234.56 and "$1,234.56"
\* gives 1234.56.
C22_NormalizerTotal ==
    /\ cn_pc # "raised"
    /\ C22_ValueOfScalar

\* C23: for a float x that is a number, clean_numeric_value(str(x)) and
\* clean_numeric_value(x) are both x; and for every scalar v on which the
\* normalizer returns, normalizing its result again gives the same result.
C23_NormalizerIdempotent ==
    (cn_pc = "done") =>
        /\ (cn_value.kind = "float" /\ ~cn_value.f.nan =>
               /\ ~cn_out.raised /\ cn_out.result = cn_value.f
               /\ ~cn_str_out.raised /\ cn_str_out.result = cn_value.f)
        /\ ~cn_again.raised /\ cn_again.result = cn_out.result

\* The second half of C23 alone: normalizing a result again changes nothing.
C23_ResultIsFixedPoint ==
    (cn_pc = "done") => ~cn_again.raised /\ cn_again.result = cn_out.result

\* C24: check_null_values fails exactly when some checked column that the
\* frame has holds nulls in a share of the rows strictly above the threshold
\* (0.05 when not configured); a share equal to the threshold passes, a frame
\* without rows passes, and the issues of a failing result are the offending
\* columns, each once with its share, and no other column.
C24_NullValuesVerdict ==
    (call_pc = "returned") =>
        LET df        == call_args.df
            params    == call_args.rule.params
            n         == Len(df.rows)
            checked   == IF "columns" \in DOMAIN params THEN Range(params["columns"])
                         ELSE Range(df.columns)
            threshold == IF "threshold" \in DOMAIN params THEN params["threshold"]
                         ELSE Ratio(5, 100)
            nulls(c)  == Cardinality({ i \in 1..n : c # "ID" /\ df.rows[i].cells[c] = FloatCell(NaN) })
            Offending == { c \in checked \cap Range(df.columns) :
                             n > 0 /\ nulls(c) * threshold.den > threshold.num * n }
            issues    == call_out.issues
        IN  /\ call_out.passed <=> Offending = {}
            /\ n = 0 => call_out.passed
            /\ { issues[k].column : k \in 1..Len(issues) } = Offending
            /\ Len(issues) = Cardinality(Offending)
            /\ \A k \in 1..Len(issues) :
                   /\ issues[k].null_count = nulls(issues[k].column)
                   /\ issues[k].null_ratio = Ratio(nulls(issues[k].column), n)

\* C24 witness: of two checked columns of a frame of two rows, one holds one
\* null, which is the threshold of one half, and the other holds two; the
\* rule has failed and lists the second column alone.
C24_Witness ==
    /\ call_pc = "returned"
    /\ "threshold" \in DOMAIN call_args.rule.params
    /\ call_args.rule.params["threshold"] = Ratio(1, 2)
    /\ Len(call_args.df.rows) = 2
    /\ ~call_out.passed
    /\ Len(call_out.issues) = 1
    /\ call_out.issues[1].column = "Feb"
    /\ call_out.issues[1].null_count = 2
    /\ \E i \in 1..2 : call_args.df.rows[i].cells["Jan"] = FloatCell(NaN)
    /\ \E i \in 1..2 : call_args.df.rows[i].cells["Jan"] # FloatCell(NaN)

\* C25: with both frames given, check_row_count takes expected = source rows
\* x value columns and ratio = actual rows / expected (0 when nothing is
\* expected) and fails exactly when the ratio is outside the window
\* [min_ratio, max_ratio], whose ends pass, [0.9, 1.1] when not configured;
\* 3 source rows and 2 value columns expect 6, actual 6 passes, actual 3 fails.
C25_RowCountVerdict ==
    (call_pc = "returned" /\ ~call_args.context.df_source.none
                          /\ ~call_args.context.df_processed.none) =>
        LET ctx      == call_args.context
            params   == call_args.rule.params
            expected == ctx.df_source.len * ctx.value_vars
            actual   == ctx.df_processed.len
            lo       == IF "min_ratio" \in DOMAIN params THEN params["min_ratio"] ELSE Ratio(9, 10)
            hi       == IF "max_ratio" \in DOMAIN params THEN params["max_ratio"] ELSE Ratio(11, 10)
            inside   == IF expected > 0
                        THEN /\ lo.num * expected <= actual * lo.den
                             /\ actual * hi.den <= hi.num * expected
                        ELSE lo.num <= 0 /\ 0 <= hi.num
        IN  /\ call_out.details["expected"] = expected
            /\ call_out.details["actual"] = actual
            /\ call_out.passed <=> inside
            /\ (ctx.df_source.len = 3 /\ ctx.value_vars = 2 /\ params = EmptyDict) =>
                   /\ expected = 6
                   /\ actual = 6 => call_out.passed
                   /\ actual = 3 => ~call_out.passed

\* C25 witness: 3 source rows and 2 value columns, 3 processed rows and a
\* window from one half: the ratio is the lower end and the rule has passed.
C25_Witness ==
    /\ call_pc = "returned"
    /\ call_args.context.df_source = FrameOfLen(3)
    /\ call_args.context.value_vars = 2
    /\ call_args.context.df_processed = FrameOfLen(3)
    /\ "min_ratio" \in DOMAIN call_args.rule.params
    /\ call_args.rule.params["min_ratio"] = Ratio(1, 2)
    /\ call_out.passed
    /\ call_out.details["expected"] = 6

\* C26: the frame check column_order in non-strict mode flags (raises, or
\* warns of) a violation exactly when the observed columns that are in the
\* expected list, in their observed order, are not the expected list, and in
\* strict mode exactly when the observed list is not the expected list; the
\* header check with exact_order raises whenever the observed columns that
\* are in the expected list are not the expected list, and when they are it
\* raises only on extra columns it was told to refuse at severity error.
C26_ColumnOrderViolation ==
    (call_pc = "returned") =>
        LET check    == call_args.check
            observed == call_args.observed
            params   == check["params"]
            flagged  == call_out.raised \/ call_out.warned # {}
        IN  IF call_args.mode = "column_order"
            THEN LET expected == params["expected_order"]
                     strict   == "strict" \in DOMAIN params /\ params["strict"]
                     kept     == SelectSeq(observed, LAMBDA c : c \in Range(expected))
                 IN  /\ flagged <=> (IF strict THEN observed # expected ELSE kept # expected)
                     /\ call_out.raised <=> (flagged /\ IsErrorSeverity(check))
            ELSE LET expected == params["expected_columns"]
                     kept     == SelectSeq(observed, LAMBDA c : c \in Range(expected))
                     refused  == /\ "allow_extra_columns" \in DOMAIN params
                                 /\ ~params["allow_extra_columns"]
                                 /\ \E c \in Range(observed) : c \notin Range(expected)
                 IN  /\ kept # expected => call_out.raised
                     /\ (kept = expected /\ call_out.raised) =>
                            refused /\ IsErrorSeverity(check)
                     /\ (kept = expected /\ ~call_out.raised /\ call_out.warned # {}) => refused

\* C26 witness: a non-strict column_order check on a frame that holds the
\* expected columns in the expected order around another column has passed.
C26_Witness ==
    /\ call_pc = "returned"
    /\ call_args.mode = "column_order"
    /\ "strict" \notin DOMAIN call_args.check["params"]
    /\ call_args.check["params"]["expected_order"] = <<"Site", "Category">>
    /\ call_args.observed = <<"Site", "Notes", "Category">>
    /\ ~call_out.raised
    /\ call_out.warned = {}

\* The dates of a filename: four digits, an optional _ or -, two digits.
DateTokens(filename) ==
    LET IsDate(i, k) ==
            /\ k + 1 <= Len(filename)
            /\ \A x \in (i..(i + 3)) \cup {k, k + 1} : filename[x] \in Digits
            /\ (k = i + 5 => filename[i + 4] \in {"_", "-"})
    IN  UNION { { [year |-> SubSeq(filename, i, i + 3), month |-> SubSeq(filename, k, k + 1)] :
                    k \in { x \in {i + 4, i + 5} : IsDate(i, x) } } :
                i \in 1..Len(filename) }

\* C27: a date returned by extract_release_date is four digits, a hyphen and
\* a two-digit month from 01 to 12; and a filename whose date has a month of
\* 00 or of 13 and above yields None.
C27_ReleaseDateMonthValid ==
    (call_pc = "returned") =>
        /\ call_out.found =>
               /\ Len(call_out.text) = 7
               /\ \A i \in {1, 2, 3, 4, 6, 7} : call_out.text[i] \in Digits
               /\ call_out.text[5] = "-"
               /\ IntegerPart(SubSeq(call_out.text, 6, 7)) \in 1..12
        /\ (\A d \in DateTokens(call_args.filename) : IntegerPart(d.month) \notin 1..12)
               => ~call_out.found

\* The part of C27 that holds: a date is returned in the form YYYY-MM, and a
\* filename of six digits in a row with a month outside 01..12, and no
\* separated date, yields None.
C27_CompactMonthValid ==
    (call_pc = "returned") =>
        /\ call_out.found =>
               /\ Len(call_out.text) = 7
               /\ \A i \in {1, 2, 3, 4, 6, 7} : call_out.text[i] \in Digits
               /\ call_out.text[5] = "-"
        /\ (call_out.found /\ SearchDate(call_args.filename, {"_", "-"}) = 0)
               => IntegerPart(SubSeq(call_out.text, 6, 7)) \in 1..12

\* C28: in a finished report, when the GRAND_TOTAL row has Match OK every
\* SHEET_TOTAL row has Match OK.
C28_GrandOKImpliesSheetsOK ==
    (rpc = "done") =>
        LET grand == validation_rows[Len(validation_rows)]
        IN  grand.Match = "OK" =>
                \A i \in 1..(Len(validation_rows) - 1) :
                    IsSheetTotal(validation_rows[i]) => validation_rows[i].Match = "OK"

\* C29: at every point of a validate_* call the validator built with
\* stop_on_error true and the one built with stop_on_error false have
\* evaluated the same checks with the same outcome (passed, warned of the
\* same things, or raised) and are both still checking, both returned or
\* both raised.
C29_StopOnErrorIgnored ==
    call_out.on = call_out.off

\* C29 witness: a call whose first check warned and whose second check
\* raised has ended there for both validators.
C29_Witness ==
    /\ call_pc = "returned"
    /\ call_out.n = MaxChecks
    /\ Len(call_out.off.log) = 2
    /\ call_out.off.log[1].warned # {}
    /\ call_out.off.log[2].raised
    /\ call_out.off.pc = "raised"
    /\ call_out.on.pc = "raised"

\* C30 in part: the lists resolve_columns returns are disjoint and the value
\* list is not empty.
C30_DisjointNonEmpty ==
    \A k \in 1..Len(call_out) :
        ~call_out[k].raised =>
            /\ call_out[k].value_vars # <<>>
            /\ Range(call_out[k].id_vars) \cap Range(call_out[k].value_vars) = {}

\* C30: when value_vars is not given resolve_columns returns the frame's
\* columns that are not identifiers and pass the include/exclude filters, in
\* the frame's column order; the runs on one frame and options return the
\* same lists; the returned lists are disjoint and the value list is not
\* empty.
C30_ResolveColumnsDeterministic ==
    /\ C30_DisjointNonEmpty
    /\ \A k \in 1..Len(call_out) :
          (~call_out[k].raised /\ "value_vars" \notin DOMAIN call_args.options) =>
              call_out[k].value_vars =
                  SelectSeq(call_args.columns,
                            LAMBDA c : /\ c \in available_cols(call_args.columns,
                                                               call_args.options)
                                       /\ c \notin Range(call_args.options["id_vars"]))
    /\ \A j, k \in 1..Len(call_out) : call_out[j] = call_out[k]

====
